---- MODULE Spec2Model ----
(***************************************************************************)
(* Model of the itinerary pipeline of travel-road-sage                     *)
(* (backend/app/services/planner.py, deepseek_ai.py, amap_mcp.py).         *)
(*                                                                         *)
(* Texts are sequences of tokens: the two fence markers, prose, and JSON   *)
(* documents; a JSON document token stands for the text of one JSON value  *)
(* and Decode gives the value json.loads returns for it.  Chinese string   *)
(* literals of the source are written in pinyin (the original is quoted in *)
(* the comment next to each).                                              *)
(***************************************************************************)
EXTENDS Integers, Sequences, FiniteSets, TLC

VARIABLES
    pc,             \* position of create_plan (the stage about to run)
    request,        \* PlanRequest
    env,            \* scripted behaviour of the chat / map / search providers
    intent,         \* travel_intent
    context,        \* context bundle of _gather_context_with_intent
    ai_response,    \* outcome of the generation chat call
    plan,           \* parsed (and enriched) plan, or None
    route_map,      \* route_map_base64
    cover_url,      \* cover_url
    ran,            \* stages that have run, in order
    log,            \* lookups issued by the enrichment runs
    plans,          \* rows of the plans table of the store
    tables          \* the other tables of the store: users, records, likes

vars == <<pc, request, env, intent, context, ai_response, plan,
          route_map, cover_url, ran, log, plans, tables>>

-----------------------------------------------------------------------------
(* Bounds of the model *)

MaxTextLen == 3         \* tokens in a chat reply
MaxResults == 6         \* POIs one map query returns
MaxPois == 3            \* POIs of one day of a plan
MaxWebResults == 3      \* results of an image search, of every kind

-----------------------------------------------------------------------------
(* Python values decoded from JSON *)

Absent == [t |-> "absent", l |-> <<>>, s |-> ""]
JNull == [t |-> "null", l |-> <<>>, s |-> ""]
JNum == [t |-> "num", l |-> <<>>, s |-> "5"]
JStr(x) == [t |-> "str", l |-> <<>>, s |-> x]
JBool(b) == [t |-> "bool", l |-> <<>>, s |-> IF b THEN "true" ELSE "false"]
JList(xs) == [t |-> "list", l |-> xs, s |-> ""]

ListKeys == {"specific_places", "must_eat", "special_needs", "suggested_areas",
             "search_keywords"}
StrKeys == {"travel_style", "budget_sensitivity", "food_priority"}
BoolKeys == {"photo_spots_needed", "local_experience", "avoid_crowds"}
IntentKeys == ListKeys \cup StrKeys \cup BoolKeys
PlanKeys == {"type", "id", "created_at"}
Keys == IntentKeys \cup PlanKeys

NoKeys == [k \in Keys |-> Absent]
NoList == [t |-> "absent", v |-> <<>>]

\* dict.get(key, default) / truthiness / iteration as Python evaluates them
Get(d, key, default) == IF d[key].t = "absent" THEN default ELSE d[key]
Truthy(x) ==
    CASE x.t = "list" -> x.l # <<>>
      [] x.t = "str" -> x.s # ""
      [] x.t = "bool" -> x.s = "true"
      [] x.t = "num" -> TRUE
      [] OTHER -> FALSE
CanIterate(x) == x.t \in {"list", "str"}
Items(x) == IF x.t = "list" THEN x.l ELSE <<x.s>>
Take(xs, n) == SubSeq(xs, 1, IF Len(xs) < n THEN Len(xs) ELSE n)

PyDict(k, dp, dys) == [t |-> "dict", k |-> k, daily_plans |-> dp, days |-> dys]
PyOther(tag) == [t |-> tag, k |-> NoKeys, daily_plans |-> NoList, days |-> NoList]
PyNone == PyOther("none")

-----------------------------------------------------------------------------
(* Requests *)

TransportModes == {"walking", "driving", "transit", "bicycling"}
Destination == "Hangzhou"
Requests == [destination : {Destination}, transport_mode : TransportModes]
DefaultRequest == [destination |-> Destination, transport_mode |-> "transit"]

-----------------------------------------------------------------------------
(* The default intent, planner.py 211-224.                                 *)
(* "zonghe tiyan" = 综合体验, "zhong" = 中, "gao" = 高, "di" = 低          *)

DefaultIntent(req) ==
    PyDict([k \in Keys |->
              CASE k = "specific_places" -> JList(<<>>)
                [] k = "must_eat" -> JList(<<>>)
                [] k = "travel_style" -> JStr("zonghe tiyan")
                [] k = "special_needs" -> JList(<<>>)
                [] k = "budget_sensitivity" -> JStr("zhong")
                [] k = "photo_spots_needed" -> JBool(TRUE)
                [] k = "local_experience" -> JBool(TRUE)
                [] k = "avoid_crowds" -> JBool(FALSE)
                [] k = "food_priority" -> JStr("zhong")
                [] k = "suggested_areas" -> JList(<<req.destination>>)
                [] k = "search_keywords" ->
                       JList(<<req.destination \o " biqu jingdian",
                               req.destination \o " wanghong daka">>)
                [] OTHER -> Absent],
           NoList, NoList)

-----------------------------------------------------------------------------
(* Structured plans: days, POIs, routes *)

NoField == "<absent>"
Poi(name, location, image_url) ==
    [t |-> "dict", name |-> name, location |-> location, address |-> NoField,
     id |-> NoField, image_url |-> image_url]
NoRoutes == [t |-> "absent", v |-> <<>>]
Day(pois) == [t |-> "dict", pois |-> [t |-> "list", v |-> pois], routes |-> NoRoutes]
BadDay == [t |-> "num", pois |-> NoList, routes |-> NoRoutes]
\* a POI given as a bare name instead of an object
BadPoi == [t |-> "str", name |-> NoField, location |-> NoField,
           address |-> NoField, id |-> NoField, image_url |-> NoField]
Days(ds) == [t |-> "list", v |-> ds]

PoiNames == <<"A", "B", "C", "D", "E">>
PoiKinds == {"bare", "located", "imaged", "complete"}
PoiOfKind(i, kind) ==
    Poi(PoiNames[i],
        IF kind \in {"located", "complete"} THEN "loc-" \o PoiNames[i] ELSE NoField,
        IF kind \in {"imaged", "complete"} THEN "img-" \o PoiNames[i] ELSE NoField)
DayOfKinds(kinds) == Day([i \in 1..Len(kinds) |-> PoiOfKind(i, kinds[i])])

\* value.get(field) is falsy when the key is missing or the string is empty
Has(x) == x # NoField /\ x # ""

-----------------------------------------------------------------------------
(* JSON documents the chat provider can emit, and what json.loads makes of *)
(* each.  "xiuxian manyou" = 休闲慢游                                      *)

IntentDoc(places, eat, needs, areas, kws, food, photo) ==
    PyDict([k \in Keys |->
              CASE k = "specific_places" -> places
                [] k = "must_eat" -> eat
                [] k = "travel_style" -> JStr("xiuxian manyou")
                [] k = "special_needs" -> needs
                [] k = "budget_sensitivity" -> JStr("zhong")
                [] k = "photo_spots_needed" -> JBool(photo)
                [] k = "local_experience" -> JBool(TRUE)
                [] k = "avoid_crowds" -> JBool(FALSE)
                [] k = "food_priority" -> JStr(food)
                [] k = "suggested_areas" -> areas
                [] k = "search_keywords" -> kws
                [] OTHER -> Absent],
           NoList, NoList)

PlanDoc(type, dp) ==
    PyDict([k \in Keys |->
              CASE k = "type" -> type
                [] k = "id" -> JStr("llm-id")
                [] k = "created_at" -> JStr("llm-time")
                [] OTHER -> Absent],
           dp, [t |-> "num", v |-> <<>>])

IntentTokens == {"I_full", "I_quiet", "I_empty", "I_null", "I_list", "I_badkw",
                 "I_nullplaces", "I_badneeds"}
PlanTokens == {"P_trip", "P_done", "P_nodays", "P_badday", "P_badpoi", "P_other",
               "P_list"}
DocTokens == IntentTokens \cup PlanTokens

Decode(tok) ==
    CASE tok = "I_full" ->
           IntentDoc(JList(<<"Xihu">>), JList(<<"Longjing xiaren">>), JList(<<>>),
                     JList(<<"Xihu qu", "Binjiang qu", "Gongshu qu">>),
                     JList(<<"k1", "k2", "k3", "k4">>), "gao", TRUE)
      [] tok = "I_quiet" ->
           IntentDoc(JList(<<>>), JList(<<>>), JList(<<"laoren">>),
                     JList(<<"Xihu qu">>), JList(<<"k1">>), "di", FALSE)
      [] tok = "I_empty" -> PyDict(NoKeys, NoList, NoList)
      [] tok = "I_null" -> PyNone
      [] tok = "I_list" -> PyOther("list")
      [] tok = "I_badkw" ->
           IntentDoc(JList(<<>>), JList(<<>>), JList(<<>>),
                     JList(<<"Xihu qu">>), JNum, "zhong", TRUE)
      [] tok = "I_nullplaces" ->
           IntentDoc(JNull, JList(<<>>), JList(<<>>),
                     JList(<<"Xihu qu">>), JList(<<"k1">>), "zhong", TRUE)
      [] tok = "I_badneeds" ->
           IntentDoc(JList(<<>>), JList(<<>>), JNum,
                     JList(<<"Xihu qu">>), JList(<<"k1">>), "zhong", TRUE)
      [] tok = "P_trip" ->
           PlanDoc(JStr("trip_plan"), Days(<<DayOfKinds(<<"bare", "bare">>)>>))
      [] tok = "P_done" ->
           PlanDoc(JStr("trip_plan"),
                   Days(<<DayOfKinds(<<"complete", "complete">>)>>))
      [] tok = "P_nodays" -> PlanDoc(JStr("trip_plan"), NoList)
      [] tok = "P_badday" -> PlanDoc(JStr("trip_plan"), Days(<<BadDay>>))
      [] tok = "P_badpoi" -> PlanDoc(JStr("trip_plan"), Days(<<Day(<<BadPoi>>)>>))
      [] tok = "P_other" ->
           PlanDoc(JStr("weather"), Days(<<DayOfKinds(<<"bare">>)>>))
      [] OTHER -> PyOther("list")

-----------------------------------------------------------------------------
(* Texts, the fenced-block regular expression and json.loads *)

\* three backquotes followed by json, and three backquotes
FenceJson == "[fence]json"
Fence == "[fence]"
Prose == "txt"
BadJson == "{bad"
Tokens == {FenceJson, Fence, Prose, BadJson} \cup DocTokens

TextsOver(toks, n) == UNION {[1..k -> toks] : k \in 0..n}

\* the replies of DeepSeekAI.chat: it raises, or returns message.content,
\* which is a text or None
ChatError == [kind |-> "error", text |-> <<>>]
ChatNull == [kind |-> "null", text |-> <<>>]
ChatText(txt) == [kind |-> "text", text |-> txt]

\* re.search of the fenced-block pattern with re.DOTALL: the first opening
\* fence (three backquotes and json) that has a closing fence (three
\* backquotes) after it, and the nearest such closing fence; the first three
\* characters of a later opening fence also close the block
IsFence(tok) == tok \in {FenceJson, Fence}
re_search(text) ==
    LET opens == {i \in 1..Len(text) :
                    /\ text[i] = FenceJson
                    /\ \E j \in (i+1)..Len(text) : IsFence(text[j])}
    IN  IF opens = {}
        THEN [found |-> FALSE, group |-> <<>>]
        ELSE LET i == CHOOSE a \in opens : \A b \in opens : a <= b
                 j == CHOOSE a \in (i+1)..Len(text) :
                        /\ IsFence(text[a])
                        /\ \A b \in (i+1)..(a-1) : ~IsFence(text[b])
             IN  [found |-> TRUE, group |-> SubSeq(text, i+1, j-1)]

\* json.loads: the text must be exactly one JSON document
json_loads(text) ==
    IF Len(text) = 1 /\ text[1] \in DocTokens
    THEN [ok |-> TRUE, value |-> Decode(text[1])]
    ELSE [ok |-> FALSE, value |-> PyNone]

-----------------------------------------------------------------------------
(* DeepSeekAI.chat, deepseek_ai.py 72-115, on a behaviour of the provider:  *)
(* it raises, or returns message.content                                   *)

Unset == [kind |-> "unset", text |-> <<>>]

\* variant: a failure of the provider is answered with an apology text
chat_apologising(behaviour) ==
    IF behaviour.kind = "error"
    THEN [raised |-> FALSE, content |-> ChatText(<<Prose>>)]
    ELSE [raised |-> FALSE, content |-> behaviour]

chat(behaviour) ==
    IF behaviour.kind = "error"
    THEN [raised |-> TRUE, content |-> Unset]
    ELSE [raised |-> FALSE, content |-> behaviour]

-----------------------------------------------------------------------------
(* TripPlanner._extract_travel_intent, planner.py 154-224 *)

\* variant: a reply that cannot be decoded yields no intent at all
extract_travel_intent_no_default(req, reply) ==
    IF reply.kind # "text"
    THEN DefaultIntent(req)
    ELSE LET json_match == re_search(reply.text)
             fenced == json_loads(json_match.group)
             whole == json_loads(reply.text)
         IN  IF json_match.found THEN fenced.value ELSE whole.value

extract_travel_intent(req, reply) ==
    IF reply.kind # "text"
    THEN DefaultIntent(req)         \* chat raised, or re.search(None) raised
    ELSE LET json_match == re_search(reply.text)
             fenced == json_loads(json_match.group)
             whole == json_loads(reply.text)
         IN  IF json_match.found
             THEN IF fenced.ok THEN fenced.value ELSE DefaultIntent(req)
             ELSE IF whole.ok THEN whole.value ELSE DefaultIntent(req)

-----------------------------------------------------------------------------
(* DeepSeekAI.parse_plan_from_response, deepseek_ai.py 163-184 *)

\* variant: the itinerary marker is not checked
parse_plan_unmarked(reply) ==
    IF reply.kind # "text"
    THEN PyNone
    ELSE LET json_match == re_search(reply.text)
             loaded == json_loads(json_match.group)
         IN  IF json_match.found /\ loaded.ok THEN loaded.value ELSE PyNone

\* variant: a reply that is bare JSON is parsed without a fenced block
parse_plan_bare(reply) ==
    IF reply.kind # "text"
    THEN PyNone
    ELSE LET json_match == re_search(reply.text)
             loaded == json_loads(IF json_match.found THEN json_match.group
                                  ELSE reply.text)
         IN  IF /\ loaded.ok
                /\ loaded.value.t = "dict"
                /\ loaded.value.k["type"] = JStr("trip_plan")
             THEN loaded.value
             ELSE PyNone

parse_plan_from_response(reply) ==
    IF reply.kind # "text"
    THEN PyNone
    ELSE LET json_match == re_search(reply.text)
             loaded == json_loads(json_match.group)
         IN  IF /\ json_match.found
                /\ loaded.ok
                /\ loaded.value.t = "dict"
                /\ loaded.value.k["type"] = JStr("trip_plan")
             THEN loaded.value
             ELSE PyNone

-----------------------------------------------------------------------------
(* The map provider as the planner sees it (amap_mcp.py 143-213, 438-455): *)
(* a query raises, or returns parsed POIs                                  *)

MapPoi(name, site) == [name |-> name, id |-> site, location |-> "120.1,30.2"]
Failed == [ok |-> FALSE, pois |-> <<>>]
Found(start, n, site) ==
    [ok |-> TRUE, pois |-> [i \in 1..n |-> MapPoi(start + i - 1, site)]]

\* the text_search calls of one gather, by loop and iteration
Sites == {<<"place", 1>>, <<"kw", 1>>, <<"kw", 2>>, <<"kw", 3>>, <<"eat", 1>>,
          <<"hotel", 1>>, <<"hotel", 2>>, <<"photo", 1>>}

\* caps of _gather_context_with_intent
PlaceCap == 2
KeywordLimit == 3
KeywordCap == 5
AttractionCap == 15
SummaryAttractions == 8
MustEatCap == 2
LocalFoodCap == 10
FoodCap == 15
FoodRadius == 5000
AreaLimit == 2
HotelCap == 5
HotelsCap == 10
PhotoCap == 5

\* results of the text_search calls of one loop, each cut to cap, in order
RECURSIVE Collect(_, _, _, _)
Collect(o, loop, n, cap) ==
    IF n = 0
    THEN <<>>
    ELSE Collect(o, loop, n - 1, cap)
           \o (IF o.text[<<loop, n>>].ok
               THEN Take(o.text[<<loop, n>>].pois, cap)
               ELSE <<>>)

\* planner.py 278-283: keep the first POI of each name
RECURSIVE Dedup(_, _, _)
Dedup(all, seen_names, unique) ==
    IF all = <<>>
    THEN unique
    ELSE IF Head(all).name \notin seen_names
         THEN Dedup(Tail(all), seen_names \cup {Head(all).name},
                    Append(unique, Head(all)))
         ELSE Dedup(Tail(all), seen_names, unique)

\* variant: a later POI of the same name replaces the earlier one
RECURSIVE DedupKeepLast(_, _, _)
DedupKeepLast(all, seen_names, unique) ==
    IF all = <<>>
    THEN unique
    ELSE IF \E j \in 2..Len(all) : all[j].name = Head(all).name
         THEN DedupKeepLast(Tail(all), seen_names, unique)
         ELSE DedupKeepLast(Tail(all), seen_names, Append(unique, Head(all)))

unique_attractions_keep_last(specific_attractions, general_attractions) ==
    DedupKeepLast(specific_attractions \o general_attractions, {}, <<>>)

\* planner.py 276-283
unique_attractions_of(specific_attractions, general_attractions) ==
    Dedup(specific_attractions \o general_attractions, {}, <<>>)

GatherRaised == [raised |-> TRUE, keys |-> {}, weather |-> "", attractions |-> <<>>,
                 food |-> <<>>, hotels |-> <<>>, photo_spots |-> <<>>,
                 summary |-> <<>>, around |-> FALSE]

\* planner.py 226-356.  o is the behaviour of the map provider during this
\* gather: o.weather, o.geocode, o.text[site], o.around
gather_context_with_intent(req, int, o) ==
    LET has_weather == o.weather = "ok"
        city_location == IF o.geocode = "ok" THEN "120.15,30.28" ELSE ""
        k == int.k
        places == Get(k, "specific_places", JList(<<>>))
        search_keywords ==
            Get(k, "search_keywords", JList(<<req.destination \o " jingdian">>))
        must_eat == Get(k, "must_eat", JList(<<>>))
        food_priority == Get(k, "food_priority", JStr("zhong"))
        suggested_areas == Get(k, "suggested_areas", JList(<<req.destination>>))
        photo_needed == Truthy(Get(k, "photo_spots_needed", JNull))
    IN  IF \/ int.t # "dict"                    \* intent.get: AttributeError
           \/ ~CanIterate(places)               \* for place in ...: TypeError
           \/ ~CanIterate(search_keywords)      \* search_keywords[:3]
           \/ ~CanIterate(must_eat)
           \/ ~CanIterate(suggested_areas)      \* suggested_areas[:2]
        THEN GatherRaised
        ELSE
        LET specific_attractions ==
                Collect(o, "place", Len(Items(places)), PlaceCap)
            general_attractions ==
                Collect(o, "kw", Len(Take(Items(search_keywords), KeywordLimit)),
                        KeywordCap)
            unique_attractions ==
                unique_attractions_of(specific_attractions, general_attractions)
            eaten == Collect(o, "eat", Len(Items(must_eat)), MustEatCap)
            around == /\ city_location # ""
                      /\ food_priority \in {JStr("gao"), JStr("zhong")}
            food_list ==
                eaten \o (IF around /\ o.around.ok
                          THEN Take(o.around.pois, LocalFoodCap)
                          ELSE <<>>)
            hotels == Collect(o, "hotel",
                              Len(Take(Items(suggested_areas), AreaLimit)), HotelCap)
            photo_ok == photo_needed /\ o.text[<<"photo", 1>>].ok
            photo_spots == IF photo_ok THEN o.text[<<"photo", 1>>].pois ELSE <<>>
        IN  [raised |-> FALSE,
             keys |-> {"attractions", "food", "hotels", "summary", "intent"}
                        \cup (IF has_weather THEN {"weather"} ELSE {})
                        \cup (IF photo_ok THEN {"photo_spots"} ELSE {}),
             weather |-> IF has_weather THEN "weather" ELSE "",
             attractions |-> Take(unique_attractions, AttractionCap),
             food |-> Take(food_list, FoodCap),
             hotels |-> Take(hotels, HotelsCap),
             photo_spots |-> Take(photo_spots, PhotoCap),
             summary |->
                 (IF has_weather THEN <<"weather">> ELSE <<>>)
                 \o (IF unique_attractions # <<>> THEN <<"attractions">> ELSE <<>>)
                 \o (IF food_list # <<>> THEN <<"food">> ELSE <<>>)
                 \o (IF hotels # <<>> THEN <<"hotels">> ELSE <<>>)
                 \o (IF photo_spots # <<>> THEN <<"photo_spots">> ELSE <<>>),
             around |-> around]

-----------------------------------------------------------------------------
(* Routes: AmapClient._parse_route (amap_mcp.py 457-478) on the answer of  *)
(* a direction endpoint, and TripPlanner._calculate_route (planner.py      *)
(* 880-895)                                                                *)

RouteOutcomes == {"error", "nopath", "path"}
\* the decoded answer of the endpoint: route.paths (route.transits)
RouteAnswer(outcome) ==
    IF outcome = "path"
    THEN [paths |-> <<[distance |-> 1200, duration |-> 900]>>]
    ELSE [paths |-> <<>>]

parse_route(result) ==
    IF result.paths = <<>>
    THEN [distance |-> 0, duration |-> 0]
    ELSE [distance |-> result.paths[1].distance,
          duration |-> result.paths[1].duration]

\* the endpoint _calculate_route calls for a transport mode
calculate_route(mode) ==
    CASE mode = "walking" -> "direction/walking"
      [] mode = "driving" -> "direction/driving"
      [] mode = "bicycling" -> "direction/bicycling"
      [] OTHER -> "direction/transit/integrated"

-----------------------------------------------------------------------------
(* TripPlanner._enrich_plan, planner.py 817-878.  o is the behaviour of    *)
(* the providers during this run: o.search and o.image for the POI         *)
(* lookups, o.route[n] for the legs of a day (alternating)                 *)

SearchOutcomes == {"error", "hit", "hit_noloc"}
ImageOutcomes == {"error", "none", "url"}
RouteOf(o, leg) == o.route[((leg - 1) % 2) + 1]

FoundPoi(poi, o) ==
    [poi EXCEPT !.location = IF o.search = "hit" THEN "120.2,30.3" ELSE "",
                !.address = "found-address",
                !.id = "B0FFG"]

\* variant: the coordinate is looked up again for every POI
locate_poi_always(poi, o) ==
    [searched |-> poi.name # NoField,
     poi |-> IF poi.name # NoField /\ o.search # "error"
             THEN FoundPoi(poi, o)
             ELSE poi]

\* planner.py 830-842: the POI after the coordinate lookup, and whether a
\* text_search was issued for it
locate_poi(poi, o) ==
    IF ~Has(poi.location) /\ poi.name # NoField
    THEN [searched |-> TRUE,
          poi |-> IF o.search # "error" THEN FoundPoi(poi, o) ELSE poi]
    ELSE [searched |-> FALSE, poi |-> poi]

\* planner.py 845-854: the POI after the image lookup, and whether
\* search_destination_image was called for it
illustrate_poi(poi, o) ==
    IF ~Has(poi.image_url) /\ poi.name # NoField
    THEN [imaged |-> TRUE,
          poi |-> IF o.image = "url"
                  THEN [poi EXCEPT !.image_url = "https://images/found"]
                  ELSE poi]
    ELSE [imaged |-> FALSE, poi |-> poi]

\* planner.py 856-866: the legs of one day a route is requested for, with
\* the endpoint called and the outcome; pois are the enriched POIs
RECURSIVE day_legs(_, _, _, _)
day_legs(pois, req, o, i) ==
    IF i >= Len(pois)
    THEN <<>>
    ELSE (IF /\ Has(pois[i].location) /\ Has(pois[i+1].location)
          THEN <<[leg |-> i,
                  endpoint |-> calculate_route(req.transport_mode),
                  outcome |-> RouteOf(o, i)]>>
          ELSE <<>>)
         \o day_legs(pois, req, o, i + 1)

\* variant: the entry names the two POIs of the leg the wrong way round
route_entry_reversed(pois, req, l) ==
    [origin |-> pois[l.leg + 1].name,
     destination |-> pois[l.leg].name,
     mode |-> req.transport_mode,
     distance |-> parse_route(RouteAnswer(l.outcome)).distance,
     duration |-> parse_route(RouteAnswer(l.outcome)).duration]

\* planner.py 867-874: the entry appended for a leg whose request did not
\* raise
route_entry(pois, req, l) ==
    [origin |-> pois[l.leg].name,
     destination |-> pois[l.leg + 1].name,
     mode |-> req.transport_mode,
     distance |-> parse_route(RouteAnswer(l.outcome)).distance,
     duration |-> parse_route(RouteAnswer(l.outcome)).duration]

RECURSIVE day_routes(_, _, _)
day_routes(pois, req, legs) ==
    IF legs = <<>>
    THEN <<>>
    ELSE (IF /\ Head(legs).outcome # "error"
             /\ pois[Head(legs).leg].name # NoField
             /\ pois[Head(legs).leg + 1].name # NoField
          THEN <<route_entry(pois, req, Head(legs))>>
          ELSE <<>>)
         \o day_routes(pois, req, Tail(legs))

\* planner.py 827-876 for one day
enrich_day(day, req, o) ==
    LET n == Len(day.pois.v)
        located == [i \in 1..n |-> locate_poi(day.pois.v[i], o)] \o <<>>
        pictured == [i \in 1..n |-> illustrate_poi(located[i].poi, o)] \o <<>>
        pois == [i \in 1..n |-> pictured[i].poi] \o <<>>
        legs == day_legs(pois, req, o, 1)
    IN  [day |-> [day EXCEPT !.pois.v = pois,
                             !.routes = [t |-> "list",
                                         v |-> day_routes(pois, req, legs)]],
         searched |-> {i \in 1..n : located[i].searched},
         imaged |-> {i \in 1..n : pictured[i].imaged},
         legs |-> legs]

EnrichRaises(pl) ==
    \/ pl.daily_plans.t \notin {"absent", "list"}      \* for day_plan in ...
    \/ \E d \in 1..Len(pl.daily_plans.v) :
          \/ pl.daily_plans.v[d].t # "dict"             \* day_plan.get
          \/ pl.daily_plans.v[d].pois.t \notin {"absent", "list"}
          \/ \E i \in 1..Len(pl.daily_plans.v[d].pois.v) :
                pl.daily_plans.v[d].pois.v[i].t # "dict"    \* poi.get

NoLookups == [searched |-> {}, imaged |-> {}, routed |-> {}]

\* mutant: an id and a timestamp of the LLM are kept
stamp_plan_if_missing(pl) ==
    [pl EXCEPT !.k["id"] = IF @ = Absent THEN JStr("uuid4") ELSE @,
               !.k["created_at"] = IF @ = Absent THEN JStr("now") ELSE @]

\* planner.py 824-825: str(uuid.uuid4())[:8] and datetime.now().isoformat()
stamp_plan(pl) ==
    [pl EXCEPT !.k["id"] = JStr("uuid4"), !.k["created_at"] = JStr("now")]

\* the enriched plan and the lookups issued: text_search and image lookups
\* by <<day, POI>>, route requests by day, leg and endpoint
enrich_plan(pl, req, o) ==
    IF EnrichRaises(pl)
    THEN [raised |-> TRUE, plan |-> PyNone, lookups |-> NoLookups]
    ELSE LET nd == Len(pl.daily_plans.v)
             days == [d \in 1..nd |-> enrich_day(pl.daily_plans.v[d], req, o)]
                         \o <<>>
         IN  [raised |-> FALSE,
              plan |-> [stamp_plan(pl) EXCEPT
                          !.daily_plans.v = [d \in 1..nd |-> days[d].day]],
              lookups |->
                  [searched |-> UNION {{<<d, i>> : i \in days[d].searched} :
                                          d \in 1..nd},
                   imaged |-> UNION {{<<d, i>> : i \in days[d].imaged} :
                                        d \in 1..nd},
                   routed |-> UNION {{[day |-> d, leg |-> days[d].legs[n].leg,
                                       endpoint |-> days[d].legs[n].endpoint] :
                                         n \in 1..Len(days[d].legs)} :
                                        d \in 1..nd}]]

-----------------------------------------------------------------------------
(* SearchService.search_destination_image, search.py 269-427, and the       *)
(* tiers it tries.  b is the behaviour of the providers and the arguments   *)
(* of one call: b.unsplash, b.location, b.map_key, b.markers, b.web (what   *)
(* search_web returns), b.head (what a HEAD request of the n-th result      *)
(* answers).  A URL is its scheme, its host, its extension and the position *)
(* of the result it came from.                                              *)

Url(scheme, host, ext, n) == [scheme |-> scheme, host |-> host, ext |-> ext, n |-> n]
NoUrl == [scheme |-> "", host |-> "", ext |-> "", n |-> 0]
UnsplashUrl == Url("https", "images.unsplash.com", "", 0)
StaticMapUrl == Url("https", "restapi.amap.com/v3/staticmap", "", 0)

\* search.py 348-353 and 370-376 (a selection of the two lists)
invalid_domains == {"sinaimg.cn", "alicdn.com", "ctrip.com"}
valid_patterns == {".jpg", ".png", "unsplash.com", "wikimedia.org"}
CandidateCap == 5

UnsplashBehaviours == {"nokey", "error", "status", "empty", "malformed", "url"}

\* search.py 33-75: the URL of the first photo, or None
search_unsplash_image(b) ==
    IF b.unsplash = "url" THEN UnsplashUrl ELSE NoUrl

\* search.py 76-107: m.get(...) raises on a marker that is not a dict
get_amap_static_image(b) ==
    IF b.markers = "strings"
    THEN [raised |-> TRUE, url |-> NoUrl]
    ELSE [raised |-> FALSE, url |-> StaticMapUrl]

\* search.py 162-189: the results, or [] when the search raised
search_web(b) == IF b.web.ok THEN b.web.results ELSE <<>>

\* search.py 335-381 for one result: the URL it offers and whether the URL
\* passes the filters
image_url_of(result) ==
    IF result.image # NoUrl THEN result.image ELSE result.thumbnail
passes_filters(url) ==
    /\ url # NoUrl
    /\ url.scheme = "https"
    /\ url.host \notin invalid_domains
    /\ url.host \in valid_patterns \/ url.ext \in valid_patterns

\* search.py 333-390: the candidates collected from the results, in order,
\* until there are 5 of them or a result that is not a dict raises
RECURSIVE valid_images_of(_, _)
valid_images_of(results, valid_images) ==
    IF results = <<>> \/ Len(valid_images) >= CandidateCap
    THEN valid_images
    ELSE IF Head(results).t # "dict"
         THEN valid_images
         ELSE valid_images_of(
                  Tail(results),
                  IF passes_filters(image_url_of(Head(results)))
                  THEN Append(valid_images, image_url_of(Head(results)))
                  ELSE valid_images)

\* search.py 244-267: status 200 and a content type holding "image/" or
\* "octet-stream"
verify_image_accessible(answer) ==
    /\ answer.status = 200
    /\ answer.content_type \in {"image/jpeg", "application/octet-stream"}

\* search.py 407-420: the candidates probed, in order, up to the first that
\* verifies
RECURSIVE probe(_, _, _)
probe(valid_images, b, probed) ==
    IF valid_images = <<>>
    THEN [url |-> NoUrl, probed |-> probed]
    ELSE IF verify_image_accessible(b.head[Head(valid_images).n])
         THEN [url |-> Head(valid_images),
               probed |-> Append(probed, Head(valid_images).n)]
         ELSE probe(Tail(valid_images), b,
                    Append(probed, Head(valid_images).n))

NoTier == [raised |-> FALSE, url |-> NoUrl, invoked |-> <<>>, probed |-> <<>>]

\* strategy 1, search.py 292-301
tier_unsplash(b) ==
    [NoTier EXCEPT !.url = search_unsplash_image(b), !.invoked = <<"unsplash">>]

\* variant: a failure to build the static-map URL is not caught
tier_static_unguarded(b) ==
    IF b.location # NoField /\ b.map_key
    THEN [NoTier EXCEPT !.raised = get_amap_static_image(b).raised,
                        !.url = get_amap_static_image(b).url,
                        !.invoked = <<"staticmap">>]
    ELSE NoTier

\* strategy 2, search.py 303-310
tier_static(b) ==
    IF b.location # NoField /\ b.map_key
    THEN [NoTier EXCEPT !.url = get_amap_static_image(b).url,
                        !.invoked = <<"staticmap">>]
    ELSE NoTier

\* strategy 3, search.py 312-427
tier_web(b) ==
    LET found == probe(valid_images_of(search_web(b), <<>>), b, <<>>)
    IN  [NoTier EXCEPT !.url = found.url, !.invoked = <<"web">>,
                       !.probed = found.probed]

Then(first, second) ==
    IF first.raised \/ first.url # NoUrl
    THEN first
    ELSE [second EXCEPT !.invoked = first.invoked \o second.invoked]

\* variant: the static map is preferred to the premium API
search_destination_image_map_first(b) ==
    Then(Then(tier_static(b), tier_unsplash(b)), tier_web(b))

search_destination_image(b) ==
    Then(Then(tier_unsplash(b), tier_static(b)), tier_web(b))

-----------------------------------------------------------------------------
(* AmapClient.get_weather, amap_mcp.py 229-280.  b is the city asked for    *)
(* and the behaviour of the providers during the call: b.geocode[n] for the *)
(* n-th geocode request, b.base and b.all for the two weather requests,     *)
(* b.meteo for the request to Open-Meteo                                    *)

GeocodeOutcomes == {"error", "empty", "noadcode", "nolocation", "found"}
WeatherOutcomes == {"ok", "20003", "10001", "http"}
MeteoOutcomes == {"ok", "error"}

\* amap_mcp.py 191-213: the dict geocode returns, {} when nothing was found
geocode(outcome) ==
    CASE outcome = "found" -> [adcode |-> "330100", location |-> "120.1,30.2"]
      [] outcome = "noadcode" -> [adcode |-> "", location |-> "120.1,30.2"]
      [] outcome = "nolocation" -> [adcode |-> "330100", location |-> ""]
      [] OTHER -> [adcode |-> "", location |-> ""]

\* amap_mcp.py 28-57: the text of the exception a failed request raises
error_text(outcome) ==
    IF outcome = "http"
    THEN "HTTP error"
    ELSE "API error (infocode=" \o outcome \o ")"

isdigit(city) == city = "330100"

\* the failure of the two weather requests of amap_mcp.py 246-255, "ok" when
\* both answered, and the requests made
primary_failure(b) == IF b.base # "ok" THEN b.base ELSE b.all
primary_calls(b) ==
    IF b.base # "ok" THEN <<"weather_base">> ELSE <<"weather_base", "weather_all">>

AmapWeather == [provider |-> NoField, source |-> "weatherInfo"]
\* amap_mcp.py 282-333
get_weather_open_meteo == [provider |-> "open-meteo", source |-> "forecast"]
NoWeather == [provider |-> NoField, source |-> NoField]

WeatherResult(raised, error, weather, calls) ==
    [raised |-> raised, error |-> error, weather |-> weather, calls |-> calls]

\* amap_mcp.py 256-272: the fallback of a failed weather request
fall_back(b, first_calls, wanted) ==
    LET calls == first_calls \o primary_calls(b)
        failure == error_text(primary_failure(b))
        geo == geocode(b.geocode[Len(first_calls) + 1])
    IN  IF ~wanted
        THEN WeatherResult(TRUE, failure, NoWeather, calls)
        ELSE IF geo.location = ""
        THEN WeatherResult(TRUE, failure, NoWeather, Append(calls, "geocode"))
        ELSE IF b.meteo = "ok"
        THEN WeatherResult(FALSE, "", get_weather_open_meteo,
                           calls \o <<"geocode", "open_meteo">>)
        ELSE WeatherResult(TRUE, "Open-Meteo error", NoWeather,
                           calls \o <<"geocode", "open_meteo">>)

\* variant: every failure of the weather request falls back to Open-Meteo
get_weather_any_failure(b) ==
    LET first_calls == IF isdigit(b.city) THEN <<>> ELSE <<"geocode">>
    IN  IF primary_failure(b) = "ok"
        THEN WeatherResult(FALSE, "", AmapWeather, first_calls \o primary_calls(b))
        ELSE fall_back(b, first_calls, TRUE)

get_weather(b) ==
    LET first_calls == IF isdigit(b.city) THEN <<>> ELSE <<"geocode">>
    IN  IF primary_failure(b) = "ok"
        THEN WeatherResult(FALSE, "", AmapWeather, first_calls \o primary_calls(b))
        ELSE fall_back(b, first_calls,
                       primary_failure(b) = "20003")  \* "infocode=20003" in str(e)

-----------------------------------------------------------------------------
(* The plan store, database.py 300-469, and its routes, routers/plans.py.  *)
(* The plans table is a function from the ids of the stored rows to the    *)
(* rows; a NULL share_code is NoShareCode.  A call draws its random token  *)
(* from ShareCodes; the column is UNIQUE, so a statement that would store  *)
(* a code another row holds raises and stores nothing.                     *)

Users == {"u1", "u2"}
PlanIds == {"p1", "p2"}                 \* str(uuid.uuid4())[:8]
ShareCodes == {"s1", "s2", "s3"}        \* secrets.token_urlsafe(6)
NoShareCode == "NULL"
Destinations == {Destination, "Suzhou"}
NoPlans == [p \in {} |-> NoShareCode]
NoTables == [users |-> NoPlans]

\* the keyword arguments of update_plan that are not None
UpdateRequests ==
    {[k \in {} |-> TRUE]}
      \cup {[is_public |-> b] : b \in BOOLEAN}
      \cup {[destination |-> d] : d \in Destinations}
      \cup {[destination |-> d, is_public |-> b] :
              d \in Destinations, b \in BOOLEAN}

unique_violation(table, plan_id, code) ==
    \E p \in DOMAIN table \ {plan_id} : table[p].share_code = code

create_plan(table, plan_id, user_id, destination, is_public, token) ==
    LET share_code == IF is_public THEN token ELSE NoShareCode
        row == [user_id |-> user_id, destination |-> destination,
                is_public |-> is_public, share_code |-> share_code,
                view_count |-> 0, like_count |-> 0]
    IN  IF is_public /\ unique_violation(table, plan_id, share_code)
        THEN table
        ELSE [p \in DOMAIN table \cup {plan_id} |->
                IF p = plan_id THEN row ELSE table[p]]

has_share_code(table, plan_id) ==
    plan_id \in DOMAIN table /\ table[plan_id].share_code # NoShareCode

\* mutant: a new code whenever the plan is set public
update_plan_regenerating(table, plan_id, user_id, kwargs, token) ==
    LET fresh == "is_public" \in DOMAIN kwargs /\ kwargs.is_public
        row == table[plan_id]
    IN  IF plan_id \notin DOMAIN table \/ row.user_id # user_id
             \/ DOMAIN kwargs = {}
             \/ (fresh /\ unique_violation(table, plan_id, token))
        THEN table
        ELSE [table EXCEPT ![plan_id] =
                [f \in DOMAIN row |->
                   IF f = "share_code" /\ fresh THEN token
                   ELSE IF f \in DOMAIN kwargs THEN kwargs[f]
                   ELSE row[f]]]

\* mutant: the visibility is stored and no code is ever generated
update_plan_without_code(table, plan_id, user_id, kwargs, token) ==
    LET row == table[plan_id]
    IN  IF plan_id \notin DOMAIN table \/ row.user_id # user_id
        THEN table
        ELSE [table EXCEPT ![plan_id] =
                [f \in DOMAIN row |->
                   IF f \in DOMAIN kwargs THEN kwargs[f] ELSE row[f]]]

update_plan(table, plan_id, user_id, kwargs, token) ==
    LET generate ==
            /\ "is_public" \in DOMAIN kwargs
            /\ kwargs.is_public
            /\ ~has_share_code(table, plan_id)
        updates ==
            IF generate
            THEN [f \in DOMAIN kwargs \cup {"share_code"} |->
                    IF f = "share_code" THEN token ELSE kwargs[f]]
            ELSE kwargs
        row == table[plan_id]
    IN  IF DOMAIN kwargs = {}
        THEN table
        ELSE IF plan_id \notin DOMAIN table \/ row.user_id # user_id
        THEN table                                  \* no row matches
        ELSE IF generate /\ unique_violation(table, plan_id, token)
        THEN table                                  \* the statement raises
        ELSE [table EXCEPT ![plan_id] =
                [f \in DOMAIN row |->
                   IF f \in DOMAIN updates THEN updates[f] ELSE row[f]]]

\* PUT /{plan_id} and POST /{plan_id}/share: 404, 403, or the update
update_plan_route(table, plan_id, user_id, kwargs, token) ==
    IF plan_id \notin DOMAIN table THEN table
    ELSE IF table[plan_id].user_id # user_id THEN table
    ELSE update_plan(table, plan_id, user_id, kwargs, token)

toggle_share(table, plan_id, user_id, is_public, token) ==
    IF plan_id \notin DOMAIN table THEN table
    ELSE IF table[plan_id].user_id # user_id THEN table
    ELSE update_plan(table, plan_id, user_id, [is_public |-> is_public], token)

\* history of a row: whether it has ever been public, and the kinds of
\* call made on it by its owner while it had a share code
NoHistory == [published |-> FALSE, since |-> {}]
HistoryOf(p) ==
    IF "rows" \in DOMAIN log /\ p \in DOMAIN log.rows
    THEN log.rows[p] ELSE NoHistory
Kinds(kwargs) ==
    (IF "destination" \in DOMAIN kwargs THEN {"edit"} ELSE {})
      \cup (IF "is_public" \in DOMAIN kwargs
            THEN {IF kwargs.is_public THEN "public" ELSE "private"}
            ELSE {})
Recorded(table, plan_id, user_id, kwargs) ==
    [rows |->
       [p \in DOMAIN table |->
          [published |-> HistoryOf(p).published \/ table[p].is_public,
           since |->
               IF /\ p = plan_id
                  /\ p \in DOMAIN plans
                  /\ plans[p].user_id = user_id
                  /\ plans[p].share_code # NoShareCode
               THEN HistoryOf(p).since \cup Kinds(kwargs)
               ELSE HistoryOf(p).since]]]

StoreUnchanged ==
    UNCHANGED <<tables, pc, request, env, intent, context, ai_response, plan,
                route_map, cover_url, ran>>

CreatePlan ==
    /\ pc = "store"
    /\ \E plan_id \in PlanIds \ DOMAIN plans, user_id \in Users,
          destination \in Destinations, is_public \in BOOLEAN,
          token \in ShareCodes :
         LET table == create_plan(plans, plan_id, user_id, destination,
                                  is_public, token)
         IN  /\ plans' = table
             /\ log' = Recorded(table, plan_id, user_id, [k \in {} |-> TRUE])
    /\ StoreUnchanged

UpdatePlan ==
    /\ pc = "store"
    /\ \E plan_id \in PlanIds, user_id \in Users, kwargs \in UpdateRequests,
          token \in ShareCodes :
         LET table == update_plan_route(plans, plan_id, user_id, kwargs, token)
         IN  /\ plans' = table
             /\ log' = Recorded(table, plan_id, user_id, kwargs)
    /\ StoreUnchanged

ToggleShare ==
    /\ pc = "store"
    /\ \E plan_id \in PlanIds, user_id \in Users, is_public \in BOOLEAN,
          token \in ShareCodes :
         LET table == toggle_share(plans, plan_id, user_id, is_public, token)
         IN  /\ plans' = table
             /\ log' = Recorded(table, plan_id, user_id,
                                [is_public |-> is_public])
    /\ StoreUnchanged

-----------------------------------------------------------------------------
(* Likes, favorites, views and deletion: database.py 353-398, 438-462 and  *)
(* 520-622, with their routes in routers/plans.py.  tables.likes and       *)
(* tables.favorites are the sets of <<user_id, plan_id>> rows (UNIQUE, and *)
(* both columns foreign keys).  A statement that raises changes nothing;   *)
(* every statement is its own transaction.  An operation gives the store   *)
(* it leaves: the plans table and the other tables.                        *)

Store(table, tb) == [plans |-> table, tables |-> tb]

\* INSERT INTO likes / favorites raises
insert_fails(table, tb, rows, user_id, plan_id) ==
    \/ user_id \notin DOMAIN tb.users
    \/ plan_id \notin DOMAIN table
    \/ <<user_id, plan_id>> \in rows

\* variant: the count is incremented before the row is inserted
add_like_counting_first(table, tb, user_id, plan_id) ==
    IF plan_id \notin DOMAIN table
    THEN Store(table, tb)
    ELSE Store([table EXCEPT ![plan_id].like_count = @ + 1],
               IF insert_fails(table, tb, tb.likes, user_id, plan_id)
               THEN tb
               ELSE [tb EXCEPT !.likes = @ \cup {<<user_id, plan_id>>}])

add_like(table, tb, user_id, plan_id) ==
    IF insert_fails(table, tb, tb.likes, user_id, plan_id)
    THEN Store(table, tb)
    ELSE Store([table EXCEPT ![plan_id].like_count = @ + 1],
               [tb EXCEPT !.likes = @ \cup {<<user_id, plan_id>>}])

remove_like(table, tb, user_id, plan_id) ==
    IF <<user_id, plan_id>> \in tb.likes             \* rowcount > 0
    THEN Store([table EXCEPT ![plan_id].like_count =
                                 IF @ - 1 > 0 THEN @ - 1 ELSE 0],
               [tb EXCEPT !.likes = @ \ {<<user_id, plan_id>>}])
    ELSE Store(table, tb)

is_liked(tb, user_id, plan_id) == <<user_id, plan_id>> \in tb.likes

\* 404, 403, or the switch
toggle_like(table, tb, user_id, plan_id) ==
    IF plan_id \notin DOMAIN table THEN Store(table, tb)
    ELSE IF ~table[plan_id].is_public /\ table[plan_id].user_id # user_id
    THEN Store(table, tb)
    ELSE IF is_liked(tb, user_id, plan_id)
    THEN remove_like(table, tb, user_id, plan_id)
    ELSE add_like(table, tb, user_id, plan_id)

add_favorite(table, tb, user_id, plan_id) ==
    IF insert_fails(table, tb, tb.favorites, user_id, plan_id)
    THEN Store(table, tb)
    ELSE Store(table, [tb EXCEPT !.favorites = @ \cup {<<user_id, plan_id>>}])

remove_favorite(table, tb, user_id, plan_id) ==
    Store(table, [tb EXCEPT !.favorites = @ \ {<<user_id, plan_id>>}])

is_favorited(tb, user_id, plan_id) == <<user_id, plan_id>> \in tb.favorites

toggle_favorite(table, tb, user_id, plan_id) ==
    IF plan_id \notin DOMAIN table THEN Store(table, tb)
    ELSE IF ~table[plan_id].is_public /\ table[plan_id].user_id # user_id
    THEN Store(table, tb)
    ELSE IF is_favorited(tb, user_id, plan_id)
    THEN remove_favorite(table, tb, user_id, plan_id)
    ELSE add_favorite(table, tb, user_id, plan_id)

OfOtherPlans(rows, plan_id) == {row \in rows : row[2] # plan_id}

\* variant: the owner is checked only by the last DELETE
delete_plan_unchecked(table, tb, plan_id, user_id) ==
    IF plan_id \notin DOMAIN table
    THEN Store(table, tb)
    ELSE Store(IF table[plan_id].user_id = user_id
               THEN [q \in DOMAIN table \ {plan_id} |-> table[q]]
               ELSE table,
               [tb EXCEPT !.favorites = OfOtherPlans(@, plan_id),
                          !.likes = OfOtherPlans(@, plan_id)])

delete_plan(table, tb, plan_id, user_id) ==
    IF plan_id \notin DOMAIN table THEN Store(table, tb)
    ELSE IF table[plan_id].user_id # user_id THEN Store(table, tb)
    ELSE Store([q \in DOMAIN table \ {plan_id} |-> table[q]],
               [tb EXCEPT !.favorites = OfOtherPlans(@, plan_id),
                          !.likes = OfOtherPlans(@, plan_id)])

\* variant: the lookup does not ask for is_public
get_plan_by_share_code_any(table, share_code) ==
    LET result == {q \in DOMAIN table : table[q].share_code = share_code}
    IN  [found |-> result,
         plans |-> [q \in DOMAIN table |->
                      IF q \in result
                      THEN [table[q] EXCEPT !.view_count = @ + 1]
                      ELSE table[q]]]

\* the ids of the row found (none or one) and the plans table left
get_plan_by_share_code(table, share_code) ==
    LET result == {q \in DOMAIN table :
                     table[q].share_code = share_code /\ table[q].is_public}
    IN  IF result # {}
        THEN [found |-> result,
              plans |-> [q \in DOMAIN table |->
                           IF table[q].share_code = share_code
                           THEN [table[q] EXCEPT !.view_count = @ + 1]
                           ELSE table[q]]]
        ELSE [found |-> {}, plans |-> table]

get_public_plans(table) == {q \in DOMAIN table : table[q].is_public}

get_user_favorites(table, tb, user_id) ==
    {q \in DOMAIN table :
        <<user_id, q>> \in tb.favorites /\ table[q].is_public}

\* the call made last and how it ended
Called(kind) == [last |-> kind]

\* plans tables that creation and share toggles leave: a public row holds
\* a share code, a private row holds one if it has been public
StoredRows ==
    {row \in [user_id : Users, destination : {Destination},
              is_public : BOOLEAN, share_code : ShareCodes \cup {NoShareCode},
              view_count : {0}, like_count : {0}] :
        row.is_public => row.share_code # NoShareCode}
StoredPlans ==
    {table \in UNION {[ids -> StoredRows] : ids \in SUBSET PlanIds} :
        \A p \in DOMAIN table, q \in DOMAIN table :
            (p # q /\ table[p].share_code # NoShareCode)
                => table[p].share_code # table[q].share_code}
NoRows == [users |-> [u \in Users |-> [membership_tier |-> "regular"]],
           likes |-> {}, favorites |-> {}]

SocialUnchanged ==
    UNCHANGED <<pc, request, env, intent, context, ai_response, plan,
                route_map, cover_url, ran>>

AddLike ==
    /\ pc = "likes"
    /\ \E user_id \in Users, plan_id \in PlanIds :
         LET left == add_like(plans, tables, user_id, plan_id)
         IN  /\ plans' = left.plans
             /\ tables' = left.tables
             /\ log' = Called(IF is_liked(tables, user_id, plan_id)
                            THEN "like repeated" ELSE "add_like")
    /\ SocialUnchanged

RemoveLike ==
    /\ pc = "likes"
    /\ \E user_id \in Users, plan_id \in PlanIds :
         LET left == remove_like(plans, tables, user_id, plan_id)
         IN  /\ plans' = left.plans
             /\ tables' = left.tables
             /\ log' = Called(IF is_liked(tables, user_id, plan_id)
                            THEN "remove_like" ELSE "no like to remove")
    /\ SocialUnchanged

ToggleLike ==
    /\ pc = "likes"
    /\ \E user_id \in Users, plan_id \in PlanIds :
         LET left == toggle_like(plans, tables, user_id, plan_id)
         IN  /\ plans' = left.plans
             /\ tables' = left.tables
             /\ log' = Called("toggle_like")
    /\ SocialUnchanged

ToggleFavorite ==
    /\ pc \in {"likes", "views"}
    /\ \E user_id \in Users, plan_id \in PlanIds :
         LET left == toggle_favorite(plans, tables, user_id, plan_id)
         IN  /\ plans' = left.plans
             /\ tables' = left.tables
             /\ log' = Called("toggle_favorite")
    /\ SocialUnchanged

IsOwner(table, plan_id, user_id) ==
    plan_id \in DOMAIN table /\ table[plan_id].user_id = user_id

\* DELETE /{plan_id}: 404 when delete_plan returns False
DeletePlan ==
    /\ pc = "likes"
    /\ \E user_id \in Users, plan_id \in PlanIds :
         LET left == delete_plan(plans, tables, plan_id, user_id)
         IN  /\ plans' = left.plans
             /\ tables' = left.tables
             /\ log' = Called(IF IsOwner(plans, plan_id, user_id)
                            THEN "delete_plan" ELSE "delete by another")
    /\ SocialUnchanged

\* db.update_plan called for a plan of somebody else
UpdateByAnother ==
    /\ pc = "likes"
    /\ \E user_id \in Users, plan_id \in DOMAIN plans,
          kwargs \in UpdateRequests, token \in ShareCodes :
         /\ ~IsOwner(plans, plan_id, user_id)
         /\ plans' = update_plan(plans, plan_id, user_id, kwargs, token)
         /\ log' = Called("update by another")
    /\ UNCHANGED tables
    /\ SocialUnchanged

\* POST /{plan_id}/share
SetShare ==
    /\ pc = "views"
    /\ \E plan_id \in PlanIds, user_id \in Users, is_public \in BOOLEAN,
          token \in ShareCodes :
         /\ plans' = toggle_share(plans, plan_id, user_id, is_public, token)
         /\ log' = Called("toggle_share")
    /\ UNCHANGED tables
    /\ SocialUnchanged

MaxViews == 2

\* GET /share/{share_code}
GetSharedPlan ==
    /\ pc = "views"
    /\ \E share_code \in ShareCodes :
         LET got == get_plan_by_share_code(plans, share_code)
         IN  /\ \A q \in got.found : plans[q].view_count < MaxViews
             /\ plans' = got.plans
             /\ log' = Called(IF got.found # {} THEN "plan found"
                            ELSE IF \E q \in DOMAIN plans :
                                      plans[q].share_code = share_code
                            THEN "share code of a private plan"
                            ELSE "share code unknown")
    /\ UNCHANGED tables
    /\ SocialUnchanged

-----------------------------------------------------------------------------
(* POST /plan, routers/plan.py 20-83, with the login check of              *)
(* routers/user.py 64-80 and the generation quota of database.py 626-673.  *)
(* pc gives the position of each request in flight; the handler runs to    *)
(* its await of the planner without interruption, and from the planner's   *)
(* return to its response.  All records are of the current day.            *)

Slots == {"r1", "r2"}
NoUser == ""
Idle == [at |-> "idle", user_id |-> NoUser, today_count |-> 0]

\* an Authorization header, split where the handler splits it
Authorizations == {<<>>, <<"Bearer ", "u1">>, <<"Bearer ", "u9">>, <<"u1">>}

RegularLimit == 3
MemberLimit == 7
SuperLimit == 15
\* the limits the handler's docstring announces
RegularQuota == 2
MemberQuota == 5
SuperQuota == 10
Tiers == {"regular", "member", "super"}

get_membership_limits(membership_tier) ==
    CASE membership_tier = "member" -> MemberLimit
      [] membership_tier = "super" -> SuperLimit
      [] OTHER -> RegularLimit

\* NoUser stands for the HTTPException(401)
get_current_user_id(tb, authorization) ==
    IF authorization = <<>> THEN NoUser
    ELSE IF authorization[1] = "Bearer " /\ authorization[2] \in DOMAIN tb.users
    THEN authorization[2]
    ELSE NoUser

get_today_generation_count(tb, user_id) == tb.generation_records[user_id]

check_generation_limit(tb, user_id) ==
    IF user_id \notin DOMAIN tb.users
    THEN [can_generate |-> FALSE, daily_limit |-> 0, today_count |-> 0]
    ELSE LET daily_limit ==
                 get_membership_limits(tb.users[user_id].membership_tier)
             today_count == get_today_generation_count(tb, user_id)
         IN  [can_generate |-> today_count < daily_limit,
              daily_limit |-> daily_limit, today_count |-> today_count]

record_generation(tb, user_id) ==
    [tb EXCEPT !.generation_records[user_id] = @ + 1]

QuotaUnchanged ==
    UNCHANGED <<request, env, intent, context, ai_response, plan, route_map,
                cover_url, ran, log, plans>>

\* lines 36-67: the handler up to the await of trip_planner.create_plan
PostPlan ==
    /\ \E r \in Slots, authorization \in Authorizations :
         /\ pc[r].at = "idle"
         /\ LET user_id == IF authorization # <<>>
                           THEN get_current_user_id(tables, authorization)
                           ELSE NoUser
                limit_check == check_generation_limit(tables, user_id)
            IN  pc' = [pc EXCEPT ![r] =
                         IF user_id # NoUser /\ ~limit_check.can_generate
                         THEN [at |-> "429", user_id |-> user_id,
                               today_count |-> limit_check.today_count]
                         ELSE [at |-> "planning", user_id |-> user_id,
                               today_count |-> limit_check.today_count]]
    /\ UNCHANGED tables
    /\ QuotaUnchanged

\* lines 67-78: the planner returns, the generation is recorded
PlannerReturns ==
    /\ \E r \in Slots :
         /\ pc[r].at = "planning"
         /\ tables' = IF pc[r].user_id # NoUser
                      THEN record_generation(tables, pc[r].user_id)
                      ELSE tables
         /\ pc' = [pc EXCEPT ![r].at = "200"]
    /\ QuotaUnchanged

\* lines 79-83: the planner raises
PlannerRaises ==
    /\ \E r \in Slots :
         /\ pc[r].at = "planning"
         /\ pc' = [pc EXCEPT ![r].at = "500"]
    /\ UNCHANGED tables
    /\ QuotaUnchanged

\* the response has left; the next request can arrive
Respond ==
    /\ \E r \in Slots :
         /\ pc[r].at \in {"200", "429", "500"}
         /\ pc' = [pc EXCEPT ![r] = Idle]
    /\ UNCHANGED tables
    /\ QuotaUnchanged

-----------------------------------------------------------------------------
(* The prompt builders, planner.py 357-482 and 730-815.  A prompt is the   *)
(* set of the context sections whose text it embeds.  A dictionary is a    *)
(* function of its keys; the weather bundle is the one get_weather         *)
(* returns: amap_mcp.py 277-280 (and 319-333) give it the keys "live" and  *)
(* "forecasts", the latter the list of the daily casts.                    *)

EmptyDict == [key \in {} |-> ""]
Live == [weather |-> "qing", temperature |-> "20"]
Cast == [date |-> "2026-01-01", dayweather |-> "qing", daytemp |-> "20"]
WeatherBundles ==
    {EmptyDict}
      \cup {[live |-> live, forecasts |-> casts] :
               live \in {EmptyDict, Live},
               casts \in {<<>>, <<Cast>>, <<Cast, Cast>>}}

\* value.get(key) is truthy
Holds(value, key) ==
    /\ key \in DOMAIN value
    /\ value[key] # EmptyDict /\ value[key] # <<>> /\ value[key] # ""

\* planner.py 730-815: of all the context, food_info and hotel_info
build_travelogue_prompt(req, ctx, food_info, hotel_info) ==
    food_info \cup hotel_info

build_prompt_with_intent(req, ctx, mode) ==
    LET attractions_info ==
            IF ctx.attractions # <<>> THEN {"attractions"} ELSE {}
        food_info == IF ctx.food # <<>> THEN {"food"} ELSE {}
        hotel_info == IF ctx.hotels # <<>> THEN {"hotels"} ELSE {}
        photo_info == IF ctx.photo_spots # <<>> THEN {"photo_spots"} ELSE {}
        weather == ctx.weather
        weather_info ==
            weather # EmptyDict /\ Holds(weather, "lives")
        forecast_list ==
            IF weather # EmptyDict /\ Holds(weather, "forecasts")
               /\ "casts" \in DOMAIN weather.forecasts[1]
            THEN weather.forecasts[1].casts
            ELSE <<>>
        weather_tips == forecast_list # <<>>
        weather_section ==
            IF weather_info \/ weather_tips THEN {"weather"} ELSE {}
    IN  IF mode = "travelogue"
        THEN build_travelogue_prompt(req, ctx, food_info, hotel_info)
        ELSE weather_section \cup attractions_info \cup food_info
               \cup hotel_info \cup photo_info

-----------------------------------------------------------------------------
(* TripPlanner.create_plan, planner.py 26-152: one action per stage *)

NoContext == [raised |-> FALSE, keys |-> {}, weather |-> "", attractions |-> <<>>,
              food |-> <<>>, hotels |-> <<>>, photo_spots |-> <<>>,
              summary |-> <<>>, around |-> FALSE]
\* the call of the cover step: whether search_destination_image was
\* called, and its location and markers arguments
NoCentre == "None"
NotCalled == [called |-> FALSE, location |-> NoCentre, markers |-> <<>>]
NoLog == [runs |-> 0, before |-> PyNone, lookups |-> NoLookups, map_pois |-> <<>>,
          cover |-> NotCalled]

MapDown ==
    [weather |-> "error", geocode |-> "error", text |-> [st \in Sites |-> Failed],
     around |-> Failed]

Lookups(search, image, route) ==
    [search |-> search, image |-> image, route |-> route]
LookupsDown == Lookups("error", "error", <<"error", "error">>)
LookupsUp == Lookups("hit", "url", <<"path", "path">>)

EnvBase ==
    [chat_intent |-> ChatError, map |-> MapDown, chat_gen |-> ChatError,
     enrich |-> LookupsDown, enrich_again |-> LookupsDown,
     route_map |-> "error", cover |-> "error"]

StartAt(stage, req, e, int, ctx, reply, pl) ==
    /\ pc = stage
    /\ request = req
    /\ env = e
    /\ intent = int
    /\ context = ctx
    /\ ai_response = reply
    /\ plan = pl
    /\ route_map = ""
    /\ cover_url = NoField
    /\ ran = <<>>
    /\ log = NoLog
    /\ plans = NoPlans
    /\ tables = NoTables

\* step 1, planner.py 45-50
Extract ==
    /\ pc = "extract"
    /\ intent' = extract_travel_intent(request, env.chat_intent)
    /\ pc' = "gather"
    /\ ran' = Append(ran, "extract")
    /\ UNCHANGED <<tables, plans, request, env, context, ai_response, plan, route_map,
                   cover_url, log>>

\* step 2, planner.py 52-57
Gather ==
    /\ pc = "gather"
    /\ context' = gather_context_with_intent(request, intent, env.map)
    /\ pc' = IF context'.raised THEN "raised" ELSE "prompt"
    /\ ran' = Append(ran, "gather")
    /\ UNCHANGED <<tables, plans, request, env, intent, ai_response, plan, route_map,
                   cover_url, log>>

\* _build_prompt_with_intent, planner.py 366-376: ', '.join(...) of a truthy
\* intent value raises unless the value is a list of strings or a string
build_prompt_raises(int) ==
    \E key \in {"specific_places", "must_eat", "special_needs"} :
        /\ Truthy(Get(int.k, key, JNull))
        /\ ~CanIterate(Get(int.k, key, JNull))

\* step 3, planner.py 59-61
BuildPrompt ==
    /\ pc = "prompt"
    /\ pc' = IF build_prompt_raises(intent) THEN "raised" ELSE "generate"
    /\ ran' = Append(ran, "prompt")
    /\ UNCHANGED <<tables, plans, request, env, intent, context, ai_response, plan, route_map,
                   cover_url, log>>

\* step 4, planner.py 63-68: the chat call, then len(ai_response)
Generate ==
    /\ pc = "generate"
    /\ LET r == chat(env.chat_gen)
       IN  /\ ai_response' = r.content
           /\ pc' = IF r.raised \/ r.content.kind # "text"
                    THEN "raised"
                    ELSE "parse"
    /\ ran' = Append(ran, "generate")
    /\ UNCHANGED <<tables, plans, request, env, intent, context, plan, route_map, cover_url,
                   log>>

\* step 5, planner.py 70-76: parse, then "if plan:"
Parse ==
    /\ pc = "parse"
    /\ plan' = parse_plan_from_response(ai_response)
    /\ pc' = IF plan'.t = "dict" THEN "enrich" ELSE "route_map"
    /\ ran' = Append(ran, "parse")
    /\ UNCHANGED <<tables, plans, request, env, intent, context, ai_response, route_map,
                   cover_url, log>>

\* step 6, planner.py 76-79
Enrich ==
    /\ pc = "enrich"
    /\ LET r == enrich_plan(plan, request, env.enrich)
       IN  /\ plan' = r.plan
           /\ pc' = IF r.raised THEN "raised" ELSE "route_map"
           /\ log' = [log EXCEPT !.runs = log.runs + 1, !.before = plan,
                                 !.lookups = r.lookups]
    /\ ran' = Append(ran, "enrich")
    /\ UNCHANGED <<tables, plans, request, env, intent, context, ai_response, route_map,
                   cover_url>>

\* _enrich_plan called once more on the plan it returned
EnrichAgain ==
    /\ pc = "route_map"
    /\ log.runs = 1
    /\ LET r == enrich_plan(plan, request, env.enrich_again)
       IN  /\ plan' = r.plan
           /\ log' = [log EXCEPT !.runs = log.runs + 1, !.before = plan,
                                 !.lookups = r.lookups]
    /\ ran' = Append(ran, "enrich")
    /\ UNCHANGED <<tables, plans, pc, request, env, intent, context, ai_response, route_map,
                   cover_url>>

RouteMapCap == 5

\* variant: the map is drawn from the POIs of the first day of the plan
route_map_pois_of_plan(ctx, pl) ==
    IF pl.t = "dict" /\ pl.daily_plans.v # <<>>
    THEN pl.daily_plans.v[1].pois.v
    ELSE Take(ctx.attractions, RouteMapCap)

\* planner.py 85-89: the POIs handed to generate_route_map
route_map_pois(ctx, pl) == Take(ctx.attractions, RouteMapCap)

\* amap_mcp.py 554-627: "" for fewer than two POIs, else the URL of the map
generate_route_map(pois) == IF Len(pois) < 2 THEN "" ELSE "https://staticmap"

\* amap_mcp.py 525-552: the base64 data, "" unless the download answers 200
download_static_map_as_base64(url, outcome) ==
    IF url # "" /\ outcome = "url" THEN "base64-png" ELSE ""

\* lst[::step] of Python
Stride(lst, step) ==
    [i \in 1..((Len(lst) + step - 1) \div step) |-> lst[(i - 1) * step + 1]] \o <<>>

SegmentCap == 20
PathCap == 100

\* amap_mcp.py 595-612: the points one leg adds to the path.  answer is the
\* number of polyline points of the route, or RouteFailed when the route
\* request raises; a point is <<leg, position>>, a POI <<0, position>>
RouteFailed == 0 - 1
segment_coords(leg, answer) ==
    IF answer = RouteFailed
    THEN << <<0, leg>>, <<0, leg + 1>> >>
    ELSE LET points == [n \in 1..answer |-> <<leg, n>>] \o <<>>
         IN  IF Len(points) > SegmentCap
             THEN Stride(points, Len(points) \div SegmentCap)
             ELSE points

RECURSIVE path_of_legs(_, _)
path_of_legs(legs, answers) ==
    IF legs = 0 THEN <<>>
    ELSE path_of_legs(legs - 1, answers) \o segment_coords(legs, answers[legs])

\* amap_mcp.py 587-625: the paths argument of generate_static_map_url for
\* located POIs 1..located
route_map_path(located, answers) ==
    LET all_coords == [i \in 1..located |-> <<0, i>>] \o <<>>
        collected == path_of_legs(located - 1, answers)
        path_coords == IF collected = <<>> THEN all_coords ELSE collected
    IN  IF Len(path_coords) > PathCap
        THEN Stride(path_coords, Len(path_coords) \div PathCap)
        ELSE path_coords

\* step 7, planner.py 81-99: every failure is caught
RouteMap ==
    /\ pc = "route_map"
    /\ LET pois == route_map_pois(context, plan)
       IN  /\ route_map' = download_static_map_as_base64(generate_route_map(pois),
                                                         env.route_map)
           /\ log' = [log EXCEPT !.map_pois = pois]
    /\ pc' = "cover"
    /\ ran' = Append(ran, "route_map")
    /\ UNCHANGED <<tables, plans, request, env, intent, context, ai_response, plan, cover_url>>

\* step 8, planner.py 101-136: every failure is caught
\* A location is the "lng,lat" string of the map provider, or an object
\* with lng and lat keys when the LLM wrote one.
ObjectOf(coordinate) == "obj:" \o coordinate
Coordinates == {"loc-" \o PoiNames[i] : i \in 1..Len(PoiNames)}
IsObject(location) == \E c \in Coordinates : location = ObjectOf(c)
\* f"{loc.get('lng', '')},{loc.get('lat', '')}"
FormatLocation(location) == CHOOSE c \in Coordinates : location = ObjectOf(c)

MarkerCap == 3
\* the locations of the located POIs among the first MarkerCap of a day
day_markers(day) ==
    IF day.t = "dict" /\ day.pois.t = "list"
    THEN LET head == SubSeq(day.pois.v, 1,
                            IF Len(day.pois.v) < MarkerCap
                            THEN Len(day.pois.v) ELSE MarkerCap)
             located == SelectSeq(head, LAMBDA poi :
                                     poi.t = "dict" /\ Has(poi.location))
         IN  [i \in 1..Len(located) |-> located[i].location] \o <<>>
    ELSE <<>>
RECURSIVE cover_markers(_)
cover_markers(days) ==
    IF days = <<>> THEN <<>>
    ELSE day_markers(Head(days)) \o cover_markers(Tail(days))

\* planner.py 107-133: the arguments are read from plan["days"]
cover_call(pl) ==
    LET without == [called |-> TRUE, location |-> NoCentre, markers |-> <<>>]
    IN  IF ~(pl.t = "dict" /\ pl.days.t = "list" /\ Len(pl.days.v) > 0)
        THEN without
        ELSE LET first_day == pl.days.v[1]
             IN  IF ~(first_day.t = "dict" /\ first_day.pois.t = "list"
                        /\ Len(first_day.pois.v) > 0)
                 THEN without
                 ELSE LET first_poi == first_day.pois.v[1]
                      IN  IF ~(first_poi.t = "dict" /\ Has(first_poi.location))
                          THEN without
                          ELSE IF ~IsObject(first_poi.location)
                          THEN NotCalled      \* loc.get raises on a string
                          ELSE [called |-> TRUE,
                                location |-> FormatLocation(first_poi.location),
                                markers |-> cover_markers(pl.days.v)]

Cover ==
    /\ pc = "cover"
    /\ LET call == cover_call(plan)
       IN  /\ cover_url' = IF call.called /\ env.cover = "url"
                           THEN "https://images/cover" ELSE NoField
           /\ log' = [log EXCEPT !.cover = call]
    /\ pc' = "return"
    /\ ran' = Append(ran, "cover")
    /\ UNCHANGED <<tables, plans, request, env, intent, context, ai_response, plan, route_map>>

\* planner.py 141-152
Return ==
    /\ pc = "return"
    /\ pc' = "done"
    /\ ran' = Append(ran, "return")
    /\ UNCHANGED <<tables, plans, request, env, intent, context, ai_response, plan, route_map,
                   cover_url, log>>

-----------------------------------------------------------------------------
(* The whole of create_plan on a selection of provider behaviours *)

IntentReplies ==
    {ChatError, ChatText(<<Prose>>), ChatText(<<FenceJson, "I_full", Fence>>)}
        \cup {ChatText(<<tok>>) :
                 tok \in {"I_quiet", "I_empty", "I_null", "I_badkw", "I_badneeds"}}
GenerationReplies ==
    {ChatError, ChatNull, ChatText(<<Prose>>), ChatText(<<"P_trip">>),
     ChatText(<<Prose, FenceJson, "P_trip">>)}
        \cup {ChatText(<<FenceJson, tok, Fence>>) :
                 tok \in {"P_trip", "P_done", "P_badday", "P_badpoi", "P_other"}}
MapUp ==
    [weather |-> "ok", geocode |-> "ok",
     text |-> [st \in Sites |->
                 Found(IF st[1] = "kw" THEN 4 * st[2] ELSE 1, MaxResults, st)],
     around |-> Found(31, MaxResults, <<"around", 1>>)]
ProviderOutcomes == {"error", "none", "url"}

Init ==
    \E ci \in IntentReplies, m \in {MapDown, MapUp}, cg \in GenerationReplies,
       o \in {LookupsDown, LookupsUp}, rm \in ProviderOutcomes,
       cv \in ProviderOutcomes, req \in Requests :
        StartAt("extract", req,
                [EnvBase EXCEPT !.chat_intent = ci, !.map = m, !.chat_gen = cg,
                                !.enrich = o, !.route_map = rm, !.cover = cv],
                PyNone, NoContext, Unset, PyNone)

Next ==
    \/ Extract
    \/ Gather
    \/ BuildPrompt
    \/ Generate
    \/ Parse
    \/ Enrich
    \/ RouteMap
    \/ Cover
    \/ Return

Spec == Init /\ [][Next]_vars

-----------------------------------------------------------------------------
(* Intent extraction on every reply of the chat provider *)

ReplyTokens == {FenceJson, Fence, Prose, BadJson} \cup IntentTokens \cup {"P_trip"}
Replies(toks) ==
    {ChatError, ChatNull} \cup {ChatText(txt) : txt \in TextsOver(toks, MaxTextLen)}

InitIntent ==
    \E r \in Replies(ReplyTokens) :
        StartAt("extract", DefaultRequest, [EnvBase EXCEPT !.chat_intent = r],
                PyNone, NoContext, Unset, PyNone)
SpecIntent == InitIntent /\ [][Extract]_vars

(* Response parsing on every generated text *)

NarrativeTokens == {FenceJson, Fence, Prose, BadJson} \cup PlanTokens \cup {"I_full"}

InitParse ==
    \E r \in Replies(NarrativeTokens) \ {ChatError} :
        StartAt("parse", DefaultRequest, [EnvBase EXCEPT !.chat_gen = r],
                DefaultIntent(DefaultRequest), NoContext, r, PyNone)

SpecParse == InitParse /\ [][Parse]_vars

(* Context gathering on every intent extraction can return and every       *)
(* behaviour of the map provider                                           *)

GatherIntents ==
    {DefaultIntent(DefaultRequest)} \cup {Decode(tok) : tok \in IntentTokens}

\* what each query of a gather can answer: nothing (it raises), an empty
\* list, or MaxResults POIs whose names overlap those of other queries
TextPool(site) ==
    CASE site = <<"place", 1>> ->
           {Failed, Found(1, 0, site), Found(1, MaxResults, site),
            Found(4, MaxResults, site)}
      [] site = <<"kw", 1>> ->
           {Failed, Found(2, MaxResults, site), Found(4, MaxResults, site)}
      [] site = <<"kw", 2>> ->
           {Failed, Found(4, MaxResults, site), Found(9, MaxResults, site)}
      [] site = <<"kw", 3>> ->
           {Failed, Found(9, MaxResults, site), Found(14, MaxResults, site)}
      [] site = <<"eat", 1>> -> {Failed, Found(21, MaxResults, site)}
      [] site = <<"photo", 1>> ->
           {Failed, Found(61, 0, site), Found(61, MaxResults, site)}
      [] OTHER -> {Failed, Found(51, MaxResults, site)}
AroundPool == {Failed, Found(31, 2 * MaxResults, <<"around", 1>>)}

\* the text_search calls a gather with this intent issues
Issued(int) ==
    IF int.t # "dict"
    THEN {}
    ELSE LET n(key, default) ==
                 IF CanIterate(Get(int.k, key, default))
                 THEN Len(Items(Get(int.k, key, default)))
                 ELSE 0
         IN  {st \in Sites :
                \/ st[1] = "place" /\ st[2] <= n("specific_places", JList(<<>>))
                \/ st[1] = "kw" /\ st[2] <= n("search_keywords", JList(<<"k">>))
                \/ st[1] = "eat" /\ st[2] <= n("must_eat", JList(<<>>))
                \/ st[1] = "hotel" /\ st[2] <= n("suggested_areas", JList(<<"a">>))
                \/ st[1] = "photo"
                     /\ Truthy(Get(int.k, "photo_spots_needed", JNull))}

PoolOf(int, st) == IF st \in Issued(int) THEN TextPool(st) ELSE {Failed}
TextBehaviours(int) ==
    {[st \in Sites |->
        CASE st = <<"place", 1>> -> p1
          [] st = <<"kw", 1>> -> k1
          [] st = <<"kw", 2>> -> k2
          [] st = <<"kw", 3>> -> k3
          [] st = <<"eat", 1>> -> e1
          [] st = <<"hotel", 1>> -> h1
          [] st = <<"hotel", 2>> -> h2
          [] OTHER -> ph] :
       p1 \in PoolOf(int, <<"place", 1>>), k1 \in PoolOf(int, <<"kw", 1>>),
       k2 \in PoolOf(int, <<"kw", 2>>), k3 \in PoolOf(int, <<"kw", 3>>),
       e1 \in PoolOf(int, <<"eat", 1>>), h1 \in PoolOf(int, <<"hotel", 1>>),
       h2 \in PoolOf(int, <<"hotel", 2>>), ph \in PoolOf(int, <<"photo", 1>>)}
MapBehaviours(int) ==
    [weather : {"error", "ok"}, geocode : {"error", "empty", "ok"},
     text : TextBehaviours(int), around : AroundPool]

InitGather ==
    \E int \in GatherIntents :
        \E o \in MapBehaviours(int) :
            StartAt("gather", DefaultRequest, [EnvBase EXCEPT !.map = o],
                    int, NoContext, Unset, PyNone)

SpecGather == InitGather /\ [][Gather]_vars

(* The gather one provider query at a time: each query of planner.py     *)
(* 226-356 is awaited where it is issued, so the coroutine issues the next *)
(* one only when the answer of the previous one is in.                     *)

QueriesOf(loop, n) == [i \in 1..n |-> <<loop, i>>] \o <<>>

\* the provider queries of one gather, in program order, up to the
\* statement that raises if one does
gather_queries(req, int, o) ==
    LET k == int.k
        places == Get(k, "specific_places", JList(<<>>))
        search_keywords ==
            Get(k, "search_keywords", JList(<<req.destination \o " jingdian">>))
        must_eat == Get(k, "must_eat", JList(<<>>))
        food_priority == Get(k, "food_priority", JStr("zhong"))
        suggested_areas == Get(k, "suggested_areas", JList(<<req.destination>>))
        around == /\ o.geocode = "ok"
                  /\ food_priority \in {JStr("gao"), JStr("zhong")}
        first == << <<"weather", 1>>, <<"geocode", 1>> >>
        attractions ==
            first \o QueriesOf("place", Len(Items(places)))
                  \o QueriesOf("kw", Len(Take(Items(search_keywords),
                                              KeywordLimit)))
        food == attractions \o QueriesOf("eat", Len(Items(must_eat)))
                            \o (IF around THEN << <<"around", 1>> >> ELSE <<>>)
        hotels == food \o QueriesOf("hotel", Len(Take(Items(suggested_areas),
                                                      AreaLimit)))
    IN  IF int.t # "dict" \/ ~CanIterate(places) THEN first
        ELSE IF ~CanIterate(search_keywords)
        THEN first \o QueriesOf("place", Len(Items(places)))
        ELSE IF ~CanIterate(must_eat) THEN attractions
        ELSE IF ~CanIterate(suggested_areas) THEN food
        ELSE hotels \o (IF Truthy(Get(k, "photo_spots_needed", JNull))
                        THEN << <<"photo", 1>> >> ELSE <<>>)

NoQueries == [issued |-> 0, in_flight |-> {}, peak |-> 0]
Progress == IF "in_flight" \in DOMAIN log THEN log ELSE NoQueries
GatherQueries == gather_queries(request, intent, env.map)

\* amap_client.<query>(...) is called: the request leaves
IssueQuery ==
    /\ pc = "gather"
    /\ Progress.in_flight = {}             \* the previous await has returned
    /\ Progress.issued < Len(GatherQueries)
    /\ LET flying == Progress.in_flight \cup {GatherQueries[Progress.issued + 1]}
       IN  log' = [issued |-> Progress.issued + 1,
                   in_flight |-> flying,
                   peak |-> IF Cardinality(flying) > Progress.peak
                            THEN Cardinality(flying) ELSE Progress.peak]
    /\ UNCHANGED <<tables, plans, pc, request, env, intent, context, ai_response,
                   plan, route_map, cover_url, ran>>

\* the answer (or the error) of a query in flight arrives
AnswerQuery ==
    /\ pc = "gather"
    /\ \E q \in Progress.in_flight :
          log' = [Progress EXCEPT !.in_flight = @ \ {q}]
    /\ UNCHANGED <<tables, plans, pc, request, env, intent, context, ai_response,
                   plan, route_map, cover_url, ran>>

\* the last statement of the gather has run
FinishGather ==
    /\ pc = "gather"
    /\ Progress.in_flight = {}
    /\ Progress.issued = Len(GatherQueries)
    /\ LET c == gather_context_with_intent(request, intent, env.map)
       IN  /\ context' = c
           /\ pc' = IF c.raised THEN "raised" ELSE "gathered"
    /\ ran' = Append(ran, "gather")
    /\ log' = Progress
    /\ UNCHANGED <<tables, plans, request, env, intent, ai_response, plan, route_map,
                   cover_url>>

InitQueries ==
    \E int \in GatherIntents :
        \E o \in {MapDown, MapUp, [MapUp EXCEPT !.geocode = "empty"]} :
            StartAt("gather", DefaultRequest, [EnvBase EXCEPT !.map = o],
                    int, NoContext, Unset, PyNone)

NextQueries == IssueQuery \/ AnswerQuery \/ FinishGather

SpecQueries == InitQueries /\ [][NextQueries]_vars

(* Enrichment of every plan of up to two days, run twice *)

KindSeqs == UNION {[1..n -> PoiKinds] : n \in 0..MaxPois}
SecondDay == DayOfKinds(<<"located", "bare", "located">>)
EnrichPlans ==
    {PlanDoc(JStr("trip_plan"), Days(<<DayOfKinds(ks)>> \o more)) :
        ks \in KindSeqs, more \in {<<>>, <<SecondDay>>}}
      \cup {PlanDoc(JStr("trip_plan"), dp) : dp \in {NoList, Days(<<>>)}}
LookupBehaviours ==
    [search : SearchOutcomes, image : ImageOutcomes,
     route : [1..2 -> RouteOutcomes]]

InitEnrich ==
    \E pl \in EnrichPlans, o \in LookupBehaviours, req \in Requests :
        StartAt("enrich", req,
                [EnvBase EXCEPT !.enrich = o, !.enrich_again = LookupsUp],
                DefaultIntent(req), NoContext, Unset, pl)

SpecEnrich == InitEnrich /\ [][Enrich \/ EnrichAgain]_vars

(* The image resolver on every behaviour of its three tiers *)

\* one call of search_destination_image, search.py 269-427
ResolveImage ==
    /\ pc = "image"
    /\ LET r == search_destination_image(env)
       IN  /\ cover_url' = r.url
           /\ pc' = IF r.raised THEN "raised" ELSE "imaged"
           /\ log' = [invoked |-> r.invoked, probed |-> r.probed]
    /\ ran' = Append(ran, "image")
    /\ UNCHANGED <<tables, plans, request, env, intent, context, ai_response, plan, route_map>>

ResultKinds == {"ok", "ext", "thumb", "http", "black", "plain", "nourl"}
WebResult(kind, n) ==
    [t |-> "dict",
     image |->
        CASE kind = "ok" -> Url("https", "unsplash.com", ".jpg", n)
          [] kind = "ext" -> Url("https", "example.org", ".png", n)
          [] kind = "http" -> Url("http", "unsplash.com", ".jpg", n)
          [] kind = "black" -> Url("https", "sinaimg.cn", ".jpg", n)
          [] kind = "plain" -> Url("https", "example.org", "", n)
          [] OTHER -> NoUrl,
     thumbnail |->
        IF kind = "thumb" THEN Url("https", "wikimedia.org", "", n) ELSE NoUrl]

HeadKinds == {"image", "octet", "html", "missing", "error"}
HeadAnswer(kind) ==
    CASE kind = "image" -> [status |-> 200, content_type |-> "image/jpeg"]
      [] kind = "octet" ->
           [status |-> 200, content_type |-> "application/octet-stream"]
      [] kind = "html" -> [status |-> 200, content_type |-> "text/html"]
      [] kind = "missing" -> [status |-> 404, content_type |-> "image/jpeg"]
      [] OTHER -> [status |-> 0, content_type |-> ""]

\* a result with the answer its URL gives to a HEAD request
Item(kind, head) == [kind |-> kind, head |-> head]
MixedItems ==
    {Item("ok", h) : h \in HeadKinds}
        \cup {Item(k, "image") : k \in ResultKinds \ {"ok"}}
LongItems == {Item("ok", "image"), Item("ok", "missing"), Item("http", "image")}
ItemSeqs ==
    UNION {[1..n -> MixedItems] : n \in 0..MaxWebResults}
        \cup UNION {[1..n -> LongItems] : n \in CandidateCap..(CandidateCap + 2)}
FewItemSeqs ==
    {<<>>, <<Item("ok", "image")>>, <<Item("ok", "missing")>>,
     <<Item("black", "image"), Item("ok", "octet")>>}

WebOf(items) ==
    [ok |-> TRUE, results |-> [n \in 1..Len(items) |-> WebResult(items[n].kind, n)]]
WebDown == [ok |-> FALSE, results |-> <<>>]
HeadOf(items) == [n \in 1..Len(items) |-> HeadAnswer(items[n].head)]

ImageCall(unsplash, location, map_key, markers, web, head) ==
    [unsplash |-> unsplash, location |-> location, map_key |-> map_key,
     markers |-> markers, web |-> web, head |-> head]

ImageCalls ==
    {ImageCall(u, l, k, m, WebOf(items), HeadOf(items)) :
        u \in UnsplashBehaviours, l \in {NoField, "120.1,30.2"}, k \in BOOLEAN,
        m \in {"none", "dicts", "strings"}, items \in FewItemSeqs}
    \cup {ImageCall(u, l, k, "none", WebDown, <<>>) :
            u \in UnsplashBehaviours, l \in {NoField, "120.1,30.2"},
            k \in BOOLEAN}
    \cup {ImageCall(u, NoField, k, "none", WebOf(items), HeadOf(items)) :
            u \in {"nokey", "status"}, k \in BOOLEAN, items \in ItemSeqs}

InitImage ==
    \E b \in ImageCalls :
        StartAt("image", DefaultRequest, b, DefaultIntent(DefaultRequest),
                NoContext, Unset, PyNone)

SpecImage == InitImage /\ [][ResolveImage]_vars

(* get_weather on every behaviour of the map provider and of Open-Meteo *)

GetWeather ==
    /\ pc = "weather"
    /\ LET r == get_weather(env)
       IN  /\ context' = r
           /\ pc' = IF r.raised THEN "raised" ELSE "weathered"
           /\ log' = [calls |-> r.calls]
    /\ ran' = Append(ran, "weather")
    /\ UNCHANGED <<tables, plans, request, env, intent, ai_response, plan, route_map, cover_url>>

WeatherCalls ==
    [city : {Destination, "330100"}, geocode : [1..2 -> GeocodeOutcomes],
     base : WeatherOutcomes, all : WeatherOutcomes, meteo : MeteoOutcomes]

InitWeather ==
    \E b \in WeatherCalls :
        StartAt("weather", DefaultRequest, b, DefaultIntent(DefaultRequest),
                NoContext, Unset, PyNone)

SpecWeather == InitWeather /\ [][GetWeather]_vars

(* the plan store under every sequence of route calls *)

InitStore ==
    StartAt("store", DefaultRequest, EnvBase, DefaultIntent(DefaultRequest),
            NoContext, Unset, PyNone)

NextStore == CreatePlan \/ UpdatePlan \/ ToggleShare

SpecStore == InitStore /\ [][NextStore]_vars

(* POST /plan by one user of every tier and by strangers, two requests   *)
(* in flight                                                               *)

InitQuota ==
    \E tier \in Tiers :
        /\ pc = [r \in Slots |-> Idle]
        /\ tables = [users |-> [u \in {"u1"} |-> [membership_tier |-> tier]],
                     generation_records |-> [u \in {"u1"} |-> 0]]
        /\ request = DefaultRequest
        /\ env = EnvBase
        /\ intent = DefaultIntent(DefaultRequest)
        /\ context = NoContext
        /\ ai_response = Unset
        /\ plan = PyNone
        /\ route_map = ""
        /\ cover_url = NoField
        /\ ran = <<>>
        /\ log = NoLog
        /\ plans = NoPlans

NextQuota == PostPlan \/ PlannerReturns \/ PlannerRaises \/ Respond

SpecQuota == InitQuota /\ [][NextQuota]_vars

(* The prompt of both modes for every combination of empty and non-empty *)
(* context sections                                                        *)

ComposePrompt ==
    /\ pc = "prompt"
    /\ log' = [prompt |-> build_prompt_with_intent(request, context, env.mode)]
    /\ pc' = "generate"
    /\ ran' = Append(ran, "prompt")
    /\ UNCHANGED <<request, env, intent, context, ai_response, plan,
                   route_map, cover_url, plans, tables>>

PoiLists == {<<>>, <<MapPoi(1, <<"kw", 1>>)>>}
PromptContexts ==
    {[NoContext EXCEPT !.weather = w, !.attractions = a, !.food = f,
                       !.hotels = h, !.photo_spots = ph] :
        w \in WeatherBundles, a \in PoiLists, f \in PoiLists,
        h \in PoiLists, ph \in PoiLists}

InitPrompt ==
    \E ctx \in PromptContexts, mode \in {"planning", "travelogue"} :
        StartAt("prompt", DefaultRequest, [mode |-> mode],
                DefaultIntent(DefaultRequest), ctx, Unset, PyNone)

SpecPrompt == InitPrompt /\ [][ComposePrompt]_vars

(* generate_route_map on two to five located POIs and every mix of short, *)
(* long and failed routes between them                                     *)

PolylineLengths == {RouteFailed, 0, 1, 20, 21, 39, 40, 59}
RouteMapInputs ==
    UNION {[located : {n}, answers : [1..(n - 1) -> PolylineLengths]] :
             n \in 2..RouteMapCap}

DrawRouteMap ==
    /\ pc = "route_map"
    /\ log' = [path |-> route_map_path(env.located, env.answers)]
    /\ route_map' = "https://staticmap"
    /\ pc' = "cover"
    /\ ran' = Append(ran, "route_map")
    /\ UNCHANGED <<request, env, intent, context, ai_response, plan,
                   cover_url, plans, tables>>

InitRouteMap ==
    \E b \in RouteMapInputs :
        StartAt("route_map", DefaultRequest, b, DefaultIntent(DefaultRequest),
                NoContext, Unset, PyNone)

SpecRouteMap == InitRouteMap /\ [][DrawRouteMap]_vars

(* likes, favorites and deletion over every stored plans table *)

InitSocial(at) ==
    /\ pc = at
    /\ plans \in StoredPlans
    /\ tables = NoRows
    /\ request = DefaultRequest
    /\ env = EnvBase
    /\ intent = DefaultIntent(DefaultRequest)
    /\ context = NoContext
    /\ ai_response = Unset
    /\ plan = PyNone
    /\ route_map = ""
    /\ cover_url = NoField
    /\ ran = <<>>
    /\ log = Called("")

InitLikes == InitSocial("likes")

NextLikes ==
    \/ AddLike \/ RemoveLike \/ ToggleLike \/ ToggleFavorite
    \/ DeletePlan \/ UpdateByAnother

SpecLikes == InitLikes /\ [][NextLikes]_vars

(* share toggles, favorites and share-code lookups *)

InitViews == InitSocial("views")

NextViews == SetShare \/ ToggleFavorite \/ GetSharedPlan

SpecViews == InitViews /\ [][NextViews]_vars

(* the cover step on enriched plans: the day list under daily_plans, and *)
(* "days" a number, or the same list with string or object locations      *)

FourLocated == <<"located", "located", "located", "located">>
AsObjects(days) ==
    [i \in 1..Len(days) |->
       [days[i] EXCEPT !.pois =
          [t |-> "list",
           v |-> [j \in 1..Len(days[i].pois.v) |->
                    LET poi == days[i].pois.v[j]
                    IN  IF Has(poi.location)
                        THEN [poi EXCEPT !.location = ObjectOf(poi.location)]
                        ELSE poi] \o <<>>]]] \o <<>>
CoverDayLists ==
    {<<DayOfKinds(ks)>> \o more :
        ks \in KindSeqs \cup {FourLocated}, more \in {<<>>, <<SecondDay>>}}
      \cup {<<>>}
CoverPlans ==
    UNION {{[PlanDoc(JStr("trip_plan"), Days(dl)) EXCEPT !.days = dys] :
              dys \in {[t |-> "num", v |-> <<>>], Days(dl), Days(AsObjects(dl))}} :
           dl \in CoverDayLists}

InitCover ==
    \E pl \in CoverPlans, cv \in ProviderOutcomes :
        StartAt("cover", DefaultRequest, [EnvBase EXCEPT !.cover = cv],
                DefaultIntent(DefaultRequest), NoContext, Unset, pl)

SpecCover == InitCover /\ [][Cover]_vars

-----------------------------------------------------------------------------
(* Properties *)

Count(text, toks) == Cardinality({i \in 1..Len(text) : text[i] \in toks})
HasBlock(text) ==
    \E i, j \in 1..Len(text) : i < j /\ text[i] = FenceJson /\ IsFence(text[j])
\* the text holds exactly one fenced block, and its content is the token tok
SingleBlock(text, tok) ==
    /\ Count(text, {FenceJson}) = 1
    /\ Count(text, {Fence}) = 1
    /\ \E i \in 1..(Len(text) - 2) :
          text[i] = FenceJson /\ text[i+1] = tok /\ text[i+2] = Fence
IsJsonText(text) == Len(text) = 1 /\ text[1] \in DocTokens

\* the three failures of intent extraction: the chat call fails, the reply
\* holds no parseable JSON, the fenced JSON does not decode
ExtractionFails(reply) ==
    \/ reply.kind # "text"
    \/ ~HasBlock(reply.text) /\ ~IsJsonText(reply.text)
    \/ HasBlock(reply.text) /\ ~json_loads(re_search(reply.text).group).ok

\* C1: intent extraction never raises, and on a failed chat call, a reply
\* without parseable JSON or a fenced block that does not decode it returns
\* the default intent (suggested_areas = [destination], travel_style =
\* "zonghe tiyan") and create_plan goes on to the gathering stage.
C1_DefaultIntentOnFailure ==
    /\ pc \in {"extract", "gather"}
    /\ (pc = "gather" /\ ExtractionFails(env.chat_intent)) =>
          /\ intent = DefaultIntent(request)
          /\ intent.k["suggested_areas"] = JList(<<request.destination>>)
          /\ intent.k["travel_style"] = JStr("zonghe tiyan")

C1_Witness ==
    /\ pc = "gather"
    /\ env.chat_intent = ChatText(<<FenceJson, BadJson, Fence>>)
    /\ intent = DefaultIntent(request)

ValidIntent(v) ==
    /\ v.t = "dict"
    /\ \A k \in ListKeys : v.k[k].t = "list"
    /\ \A k \in StrKeys : v.k[k].t = "str"
    /\ \A k \in BoolKeys : v.k[k].t = "bool"

\* C2: whatever the chat provider does, the intent returned by intent
\* extraction has every required key with the right type.
C2_IntentAlwaysValid == pc = "gather" => ValidIntent(intent)

\* C3: context gathering never raises, whichever of its sub-queries fail:
\* it returns a bundle whose attractions, food and hotels are lists, and
\* whose weather is absent when the weather query failed.
C3_GatherNeverRaises ==
    pc # "gather" =>
      /\ pc = "prompt"
      /\ ~context.raised
      /\ {"attractions", "food", "hotels"} \subseteq context.keys
      /\ env.map.weather = "error" => "weather" \notin context.keys

\* no failure of a sub-query escapes a gather whose intent is well typed
GatherSwallowsQueryFailures ==
    (pc # "gather" /\ ValidIntent(intent)) => C3_GatherNeverRaises

\* the results the attraction queries returned, as the specification lists them:
\* up to 2 per place, then up to 5 for each of the first 3 keywords
AttractionResults ==
    LET nplaces == Len(Items(Get(intent.k, "specific_places", JList(<<>>))))
        nkw == Len(Items(Get(intent.k, "search_keywords", JList(<<"k">>))))
    IN  Collect(env.map, "place", nplaces, 2)
          \o Collect(env.map, "kw", IF nkw < 3 THEN nkw ELSE 3, 5)
FirstOccurrences(all) ==
    {i \in 1..Len(all) : \A j \in 1..(i-1) : all[j].name # all[i].name}
Nth(I, n) == CHOOSE i \in I : Cardinality({j \in I : j < i}) = n - 1
FirstOccurrenceSeq(all) ==
    [n \in 1..Cardinality(FirstOccurrences(all)) |->
        all[Nth(FirstOccurrences(all), n)]]

\* C4: the attractions of the bundle are the specific-place results followed
\* by the keyword results, with only the first POI of each name kept, in
\* their original order, cut to 15; no name occurs twice.
C4_AttractionsDeduplicated ==
    pc = "prompt" =>
      LET attractions == context.attractions
      IN  /\ attractions = Take(FirstOccurrenceSeq(AttractionResults), 15)
          /\ \A i, j \in 1..Len(attractions) :
                i < j => attractions[i].name # attractions[j].name
          /\ Len(attractions) <= 15

C4_Witness ==
    /\ pc = "prompt"
    /\ Len(FirstOccurrenceSeq(AttractionResults)) < Len(AttractionResults)
    /\ Len(FirstOccurrenceSeq(AttractionResults)) > 15
    /\ Len(context.attractions) = 15
    /\ context.attractions[1].id = <<"place", 1>>

\* C5: parse_plan_from_response never raises; a text with a single fenced
\* block holding an object with type = "trip_plan" gives a plan equal to that
\* object; a text without fenced block, a block that does not decode and a
\* decoded value without the marker give None.
C5_ParseFailsClosed ==
    pc # "parse" =>
      /\ pc \in {"enrich", "route_map"}
      /\ LET text == ai_response.text
         IN  /\ \A tok \in DocTokens :
                   SingleBlock(text, tok) =>
                      plan = IF /\ Decode(tok).t = "dict"
                                /\ Decode(tok).k["type"] = JStr("trip_plan")
                             THEN Decode(tok)
                             ELSE PyNone
             /\ ~HasBlock(text) => plan = PyNone
             /\ \A tok \in Tokens \ DocTokens :
                   SingleBlock(text, tok) => plan = PyNone
      /\ plan = PyNone <=> pc = "route_map"

C5_Witness ==
    /\ pc = "enrich"
    /\ SingleBlock(ai_response.text, "P_trip")
    /\ plan = Decode("P_trip")


Last(xs) == xs[Len(xs)]
After(stage) == \E i \in 1..Len(ran) : ran[i] = stage

\* C6: when the chat provider fails on the generation call, after intent
\* extraction and gathering completed, create_plan raises: no narrative is
\* made up, and the parse, enrichment, route-map and cover steps never run.
C6_GenerationFailureSurfaces ==
    env.chat_gen.kind = "error" =>
      /\ pc # "done"
      /\ ai_response = Unset
      /\ After("generate") => pc = "raised"
      /\ \A stage \in {"parse", "enrich", "route_map", "cover", "return"} :
            ~After(stage)
      /\ plan = PyNone /\ log = NoLog /\ route_map = "" /\ cover_url = NoField

C6_Witness ==
    /\ env.chat_gen.kind = "error"
    /\ pc = "raised"
    /\ ran = <<"extract", "gather", "prompt", "generate">>

\* C7: only a failure of the chat provider on the generation call makes
\* create_plan raise: whatever the map, search, image and routing calls do,
\* whatever intent the chat provider returned and whatever the parsed plan
\* holds, create_plan returns a bundle with the narrative text.
C7_OnlyChatFailureRaises ==
    /\ pc = "raised" => Last(ran) = "generate" /\ env.chat_gen.kind # "text"
    /\ pc = "done" => ai_response.kind = "text"

\* C8: a narrative without fenced JSON block is returned with plan = None,
\* and enrichment is never entered: no coordinate search, no image lookup
\* and no route request is issued.
C8_NoBlockNoEnrichment ==
    (ai_response.kind = "text" /\ ~HasBlock(ai_response.text)) =>
      /\ pc # "raised"
      /\ plan = PyNone
      /\ ~After("enrich")
      /\ log.runs = 0 /\ log.lookups = NoLookups
      /\ pc = "done" => ai_response = env.chat_gen

C8_Witness ==
    /\ pc = "done"
    /\ ai_response = ChatText(<<"P_trip">>)
    /\ plan = PyNone
    /\ log.runs = 0

\* C9: for every POI that has a coordinate before a run of _enrich_plan, the
\* run issues no coordinate search and leaves location, address and id as
\* they were; for every POI that has an image it issues no image lookup and
\* leaves image_url as it was.  This holds for the first run and for a run
\* on the plan a first run returned.
C9_EnrichmentIdempotent ==
    (log.runs >= 1 /\ pc # "raised") =>
      \A d \in 1..Len(plan.daily_plans.v) :
        \A i \in 1..Len(plan.daily_plans.v[d].pois.v) :
          LET before == log.before.daily_plans.v[d].pois.v[i]
              after == plan.daily_plans.v[d].pois.v[i]
          IN  /\ Has(before.location) =>
                    /\ <<d, i>> \notin log.lookups.searched
                    /\ after.location = before.location
                    /\ after.address = before.address
                    /\ after.id = before.id
              /\ Has(before.image_url) =>
                    /\ <<d, i>> \notin log.lookups.imaged
                    /\ after.image_url = before.image_url

\* a second run on a plan whose first POI got its coordinate and its image
\* from the first run
C9_Witness ==
    /\ log.runs = 2
    /\ Len(log.before.daily_plans.v) >= 1
    /\ Len(log.before.daily_plans.v[1].pois.v) >= 1
    /\ log.before.daily_plans.v[1].pois.v[1].address = "found-address"
    /\ log.before.daily_plans.v[1].pois.v[1].image_url = "https://images/found"
    /\ Has(log.before.daily_plans.v[1].pois.v[1].location)
    /\ plan.daily_plans.v[1].pois.v[1] = log.before.daily_plans.v[1].pois.v[1]

ModeEndpoint(mode) ==
    "direction/" \o (IF mode = "transit" THEN "transit/integrated" ELSE mode)
LocatedPairs(pois) ==
    {i \in 1..(Len(pois) - 1) : Has(pois[i].location) /\ Has(pois[i+1].location)}
Obtained(o, leg) == RouteOf(o, leg) = "path"

\* one route is requested for every pair of consecutive POIs with
\* coordinates, on the endpoint of the request's transport mode
OneRequestPerLocatedPair ==
    (log.runs = 1 /\ pc # "raised") =>
      \A d \in 1..Len(plan.daily_plans.v) :
        {l \in log.lookups.routed : l.day = d}
          = {[day |-> d, leg |-> i,
              endpoint |-> ModeEndpoint(request.transport_mode)] :
                i \in LocatedPairs(plan.daily_plans.v[d].pois.v)}

\* C10: for every day and every pair of consecutive POIs with coordinates one
\* route is requested with the request's transport mode; a leg whose route
\* was not obtained is absent from the routes of the day, and no entry has
\* distance 0 and duration 0.
C10_FailedLegsAbsent ==
    /\ OneRequestPerLocatedPair
    /\ (log.runs = 1 /\ pc # "raised") =>
         \A d \in 1..Len(plan.daily_plans.v) :
           LET pois == plan.daily_plans.v[d].pois.v
               routes == plan.daily_plans.v[d].routes.v
           IN  /\ \A n \in 1..Len(routes) :
                     /\ routes[n].mode = request.transport_mode
                     /\ ~(routes[n].distance = 0 /\ routes[n].duration = 0)
               /\ \A i \in LocatedPairs(pois) :
                     ~Obtained(env.enrich, i) =>
                        ~\E n \in 1..Len(routes) :
                            /\ routes[n].origin = pois[i].name
                            /\ routes[n].destination = pois[i+1].name

\* a leg whose request raised is absent from the routes of the day
RaisedLegsAbsent ==
    (log.runs = 1 /\ pc # "raised") =>
      \A d \in 1..Len(plan.daily_plans.v) :
        LET pois == plan.daily_plans.v[d].pois.v
            routes == plan.daily_plans.v[d].routes.v
        IN  /\ Len(routes)
                 = Cardinality({i \in LocatedPairs(pois) :
                                  RouteOf(env.enrich, i) # "error"})
            /\ \A n \in 1..Len(routes) :
                  routes[n].mode = request.transport_mode


\* the behaviour of the providers during the latest run of _enrich_plan
LatestLookups == IF log.runs = 2 THEN env.enrich_again ELSE env.enrich
Enriched == log.runs >= 1 /\ pc # "raised"

\* C11: in every enriched plan the routes of a day are one fewer than its
\* POIs, and the i-th route connects the i-th POI to the (i+1)-th.
C11_OneRouteFewerThanPois ==
    Enriched =>
      \A d \in 1..Len(plan.daily_plans.v) :
        LET pois == plan.daily_plans.v[d].pois.v
            routes == plan.daily_plans.v[d].routes.v
        IN  /\ Len(routes) = Len(pois) - 1
            /\ \A i \in 1..Len(routes) :
                  /\ routes[i].origin = pois[i].name
                  /\ routes[i].destination = pois[i+1].name

\* C11 as amended: the routes of a day are, in the order of the POIs, the
\* pairs of consecutive POIs that both have coordinates and whose route
\* request did not raise; each connects a POI to the next one, and they are
\* at most one fewer than the POIs.
C11_RoutesConnectLocatedPairs ==
    Enriched =>
      \A d \in 1..Len(plan.daily_plans.v) :
        LET pois == plan.daily_plans.v[d].pois.v
            routes == plan.daily_plans.v[d].routes.v
            legs == {i \in LocatedPairs(pois) :
                       RouteOf(LatestLookups, i) # "error"}
        IN  /\ Len(routes) = Cardinality(legs)
            /\ Len(pois) >= 1 => Len(routes) <= Len(pois) - 1
            /\ \A n \in 1..Len(routes) :
                  /\ routes[n].origin = pois[Nth(legs, n)].name
                  /\ routes[n].destination = pois[Nth(legs, n) + 1].name

\* three located POIs, the request for the first leg raised: the only route
\* is the one of the second leg
C11_Witness ==
    /\ log.runs = 1
    /\ Len(plan.daily_plans.v) >= 1
    /\ Len(plan.daily_plans.v[1].pois.v) = 3
    /\ RouteOf(env.enrich, 1) = "error"
    /\ Len(plan.daily_plans.v[1].routes.v) = 1
    /\ plan.daily_plans.v[1].routes.v[1].origin = PoiNames[2]
    /\ plan.daily_plans.v[1].routes.v[1].destination = PoiNames[3]


Invoked(tier) == \E i \in 1..Len(log.invoked) : log.invoked[i] = tier
PremiumAnswers == env.unsplash = "url"
StaticAvailable == env.location # NoField /\ env.map_key

SurvivesFilters(url) ==
    /\ url # NoUrl
    /\ url.scheme = "https"
    /\ url.host \notin invalid_domains
    /\ url.host \in valid_patterns \/ url.ext \in valid_patterns
Offered(n) ==
    IF env.web.results[n].image # NoUrl
    THEN env.web.results[n].image
    ELSE env.web.results[n].thumbnail
Surviving == {n \in 1..Len(env.web.results) : SurvivesFilters(Offered(n))}
FirstFive == {n \in Surviving : Cardinality({m \in Surviving : m < n}) < 5}
IsImageAnswer(answer) ==
    answer.status = 200 /\ answer.content_type = "image/jpeg"
FirstOf(S) == CHOOSE n \in S : \A m \in S : n <= m

\* C13: the web-search tier returns the first, in result order, of at most
\* 5 candidates (HTTPS, not blacklisted, allowlisted) whose probe answers
\* with a successful status and an image content type; a URL that fails one
\* of these checks is never returned, and the result is None when no
\* candidate verifies.
C13_FirstVerifiedCandidate ==
    (pc = "imaged" /\ Invoked("web")) =>
      LET verified == {n \in FirstFive : IsImageAnswer(env.head[n])}
      IN  IF verified = {}
          THEN cover_url = NoUrl
          ELSE cover_url = Offered(FirstOf(verified))

\* the same with the probe as the code makes it: status 200 and a content
\* type holding "image/" or "octet-stream"
FirstProbedCandidateWins ==
    (pc = "imaged" /\ Invoked("web")) =>
      LET verified ==
              {n \in FirstFive :
                 /\ env.head[n].status = 200
                 /\ env.head[n].content_type
                       \in {"image/jpeg", "application/octet-stream"}}
      IN  /\ IF verified = {}
             THEN cover_url = NoUrl
             ELSE cover_url = Offered(FirstOf(verified))
          /\ \A i \in 1..Len(log.probed) : log.probed[i] \in FirstFive
          /\ Len(log.probed) <= 5

\* C14: the image resolver never raises: a missing credential, a network
\* error, a non-success status, zero results or a failing probe in a tier
\* falls through to the next tier, and the result is None when every tier
\* fails.
C14_ResolverNeverRaises ==
    pc # "image" =>
      /\ pc = "imaged"
      /\ ~PremiumAnswers =>
            \/ Invoked("staticmap")
            \/ ~StaticAvailable /\ Invoked("web")
      /\ (~PremiumAnswers /\ StaticAvailable /\ cover_url # StaticMapUrl) =>
            Invoked("web")
      /\ (/\ ~PremiumAnswers
          /\ ~StaticAvailable \/ env.markers = "strings"
          /\ \A n \in 1..Len(env.head) :
                n \in FirstFive => ~verify_image_accessible(env.head[n])) =>
            cover_url = NoUrl

\* every tier fails: the premium request errors, building the static map
\* raises, and the probe of the only candidate fails
C14_Witness ==
    /\ pc = "imaged"
    /\ env.unsplash = "error"
    /\ StaticAvailable /\ env.markers = "strings"
    /\ env.web.results # <<>>
    /\ log.invoked = <<"unsplash", "staticmap", "web">>
    /\ log.probed = <<1>>
    /\ cover_url = NoUrl


Calls(name) == Cardinality({i \in 1..Len(log.calls) : log.calls[i] = name})
PrimaryOutcome == IF env.base # "ok" THEN env.base ELSE env.all
\* the geocode request of the fallback is the second one when the city is a
\* name, the first one when it is an adcode
FallbackGeocode == env.geocode[IF env.city = "330100" THEN 1 ELSE 2]
YieldsCoordinate(outcome) == outcome \in {"found", "noadcode"}

\* C15: get_weather calls the secondary provider exactly when the primary
\* weather call fails with infocode 20003 and geocoding the city yields a
\* coordinate; it calls it at most once, its result is marked "open-meteo",
\* and on any other primary failure, or without coordinate, the original
\* error propagates and no fallback call is made.
C15_FallbackOnlyOnInvalidCity ==
    pc # "weather" =>
      LET triggered ==
              PrimaryOutcome = "20003" /\ YieldsCoordinate(FallbackGeocode)
      IN  /\ Calls("open_meteo") <= 1
          /\ Calls("open_meteo") = 1 <=> triggered
          /\ (triggered /\ pc = "weathered") =>
                context.weather.provider = "open-meteo"
          /\ ~triggered =>
                context.weather.provider # "open-meteo"
          /\ (PrimaryOutcome # "ok" /\ ~triggered) =>
                /\ pc = "raised"
                /\ context.error
                     = (IF PrimaryOutcome = "http"
                        THEN "HTTP error"
                        ELSE "API error (infocode=" \o PrimaryOutcome \o ")")

\* the city is a name whose first geocode fails; the second weather request
\* fails with 20003 and the fallback answers
C15_Witness ==
    /\ pc = "weathered"
    /\ env.city = Destination
    /\ env.geocode = <<"error", "found">>
    /\ env.base = "ok" /\ env.all = "20003"
    /\ log.calls = <<"geocode", "weather_base", "weather_all", "geocode",
                     "open_meteo">>
    /\ context.weather.provider = "open-meteo"


PlanPois ==
    IF plan.t # "dict" \/ plan.daily_plans.t # "list"
    THEN {}
    ELSE UNION {{plan.daily_plans.v[d].pois.v[i] :
                    i \in 1..Len(plan.daily_plans.v[d].pois.v)} :
                  d \in 1..Len(plan.daily_plans.v)}

\* C16: the route-map step uses the first five attractions of the gathered
\* context and never the POIs of the enriched plan; a failure to generate
\* or download the map leaves route_map_base64 empty, and create_plan still
\* returns the narrative, the plan and the cover image.
C16_RouteMapFromContext ==
    After("route_map") =>
      /\ log.map_pois
           = SubSeq(context.attractions, 1,
                    IF Len(context.attractions) < 5
                    THEN Len(context.attractions)
                    ELSE 5)
      /\ \A i \in 1..Len(log.map_pois) : log.map_pois[i] \notin PlanPois
      /\ env.route_map # "url" => route_map = ""
      /\ pc \in {"cover", "return", "done"}
      /\ pc = "done" =>
            /\ ai_response = env.chat_gen
            /\ plan.t = "dict" <=> After("enrich")
            /\ env.cover = "url" <=> cover_url # NoField

\* more than five attractions, a plan, a download that fails, and a cover
C16_Witness ==
    /\ pc = "done"
    /\ Len(context.attractions) > 5
    /\ Len(log.map_pois) = 5
    /\ plan.t = "dict" /\ PlanPois # {}
    /\ env.route_map = "error"
    /\ route_map = ""
    /\ cover_url # NoField


Shared(p) == plans[p].share_code # NoShareCode

\* C17: a stored plan has a share code whenever it is public, and it has one
\* exactly when it is or has been public; this holds when the plan is
\* created and after every update_plan / toggle_share call, in either
\* direction: a plan made private keeps its code.
C17_ShareCodeOnceEverPublic ==
    \A p \in DOMAIN plans :
        /\ plans[p].is_public => Shared(p)
        /\ Shared(p) <=> HistoryOf(p).published

\* C17 as stated: share_code is present if and only if is_public is true
C17_ShareCodeIffPublic ==
    \A p \in DOMAIN plans : Shared(p) <=> plans[p].is_public

\* a plan that was made private after it had a code, next to one that was
\* never public
C17_Witness ==
    \E p, q \in DOMAIN plans :
        /\ ~plans[p].is_public /\ Shared(p)
        /\ "private" \in HistoryOf(p).since
        /\ ~plans[q].is_public /\ ~Shared(q) /\ ~HistoryOf(q).published

\* C18: a call that makes a plan public when it has no share code assigns
\* one, and no update_plan / toggle_share call changes the share code of a
\* plan that has one.
C18_ShareCodeAssignedOnce ==
    [][\A p \in DOMAIN plans :
          /\ p \in DOMAIN plans'
          /\ Shared(p) => plans'[p].share_code = plans[p].share_code
          /\ (~Shared(p) /\ plans'[p].is_public) =>
                plans'[p].share_code \in ShareCodes]_vars

\* a public plan whose owner has since set it public again, private, and
\* edited another field, while another plan holds another code
C18_Witness ==
    \E p, q \in DOMAIN plans :
        /\ plans[p].is_public /\ Shared(p)
        /\ HistoryOf(p).since = {"public", "private", "edit"}
        /\ Shared(q) /\ plans[q].share_code # plans[p].share_code


\* the gather never has two provider queries in flight
QueriesStrictlySequential ==
    Cardinality(Progress.in_flight) <= 1 /\ Progress.peak <= 1

\* C19: within one gather the provider queries do not block each other: a
\* gather that makes at least two queries has more than one of them in
\* flight at some time, and never more than the queries it makes.
C19_QueriesOverlap ==
    (pc \in {"gathered", "raised"} /\ Len(GatherQueries) >= 2) =>
        /\ Progress.peak > 1
        /\ Progress.peak <= Len(GatherQueries)


\* C20: the plan an enrichment run returns has the id and the created_at
\* the run generated, never the ones the LLM emitted in the structured
\* block, also when the plan has no days or no POIs.
C20_FreshIdAndTimestamp ==
    (log.runs >= 1 /\ pc # "raised") =>
      /\ plan.k["id"] = JStr("uuid4")
      /\ plan.k["created_at"] = JStr("now")
      /\ plan.k["id"] # JStr("llm-id")
      /\ plan.k["created_at"] # JStr("llm-time")

\* one run on a plan without daily_plans that came with an id and a
\* timestamp of the LLM
C20_Witness ==
    /\ log.runs = 1 /\ pc = "route_map"
    /\ log.before.k["id"] = JStr("llm-id")
    /\ log.before.k["created_at"] = JStr("llm-time")
    /\ log.before.daily_plans.t = "absent"
    /\ plan.daily_plans.v = <<>>
    /\ plan.k["id"] = JStr("uuid4")


Quota(membership_tier) ==
    CASE membership_tier = "member" -> MemberQuota
      [] membership_tier = "super" -> SuperQuota
      [] OTHER -> RegularQuota
Running(r) == pc[r].at \in {"planning", "200", "500"}
TierOf(user_id) == tables.users[user_id].membership_tier

\* C21: the daily quota is 2 for regular users, 5 for members and 10 for
\* super members: the planner runs for a logged-in user only if the number
\* of generations recorded today was below that quota when the request was
\* checked.
C21_DailyQuota ==
    \A r \in Slots :
        (Running(r) /\ pc[r].user_id # NoUser) =>
            pc[r].today_count < Quota(TierOf(pc[r].user_id))

\* the quota the code enforces: 3, 7 and 15
EnforcedQuota ==
    \A r \in Slots :
        /\ (Running(r) /\ pc[r].user_id # NoUser) =>
              pc[r].today_count < get_membership_limits(TierOf(pc[r].user_id))
        /\ pc[r].at = "429" =>
              pc[r].today_count >= get_membership_limits(TierOf(pc[r].user_id))

\* C22: the planner runs only for requests of a logged-in user.
C22_LoginRequired ==
    \A r \in Slots : Running(r) => pc[r].user_id # NoUser

\* C26: the generations recorded for a user on one day never exceed the
\* daily limit of the user's tier.
C26_RecordsWithinLimit ==
    \A u \in DOMAIN tables.users :
        tables.generation_records[u] <= get_membership_limits(TierOf(u))

\* the records exceed the limit by at most the other requests in flight
RecordsWithinLimitPlusFlight ==
    \A u \in DOMAIN tables.users :
        tables.generation_records[u]
          <= get_membership_limits(TierOf(u)) + Cardinality(Slots) - 1


NonEmptySections ==
    {sec \in {"attractions", "food", "hotels", "photo_spots"} :
        context[sec] # <<>>}
      \cup (IF context.weather # EmptyDict
               /\ (context.weather.live # EmptyDict
                     \/ context.weather.forecasts # <<>>)
            THEN {"weather"} ELSE {})

\* C23: in both modes the prompt embeds every non-empty section of the
\* gathered context: weather, attractions, food, hotels and photo spots.
C23_PromptEmbedsContext ==
    pc = "generate" => NonEmptySections \subseteq log.prompt

\* what the builders do embed: never the weather, and in travelogue mode
\* only food and hotels
PromptEmbedsWhatItReads ==
    pc = "generate" =>
        log.prompt = NonEmptySections
                       \ (IF env.mode = "travelogue"
                          THEN {"weather", "attractions", "photo_spots"}
                          ELSE {"weather"})


Located == env.map.geocode = "ok"
FoodWanted ==
    intent.t = "dict"
      /\ Get(intent.k, "food_priority", JStr("zhong"))
            \in {JStr("gao"), JStr("zhong")}
FoodFrom(loop) ==
    {i \in 1..Len(context.food) : context.food[i].id[1] = loop}
QueriesOfLoop(loop) ==
    {i \in 1..Len(GatherQueries) : GatherQueries[i][1] = loop}

\* the radius search and the caps of the food list
RadiusSearchWhenLocated ==
    (After("gather") /\ pc # "raised") =>
      /\ Cardinality(QueriesOfLoop("around")) <= 1
      /\ QueriesOfLoop("around") # {} <=> (Located /\ FoodWanted)
      /\ context.around <=> QueriesOfLoop("around") # {}
      /\ \A i \in FoodFrom("eat"), j \in FoodFrom("around") : i < j
      /\ Cardinality(FoodFrom("eat"))
            <= MustEatCap * Cardinality(QueriesOfLoop("eat"))
      /\ Cardinality(FoodFrom("around")) <= LocalFoodCap
      /\ Len(context.food) <= FoodCap

\* C24: without a coordinate of the destination the gather issues no
\* radius search and gets the local food by a keyword search instead; with
\* a coordinate it issues the radius search only if food_priority is "gao"
\* or "zhong", after the must_eat results (up to 2 each), keeps at most 10
\* of its entries, and caps the food list at 15.
C24_FoodSearch ==
    (After("gather") /\ pc # "raised") =>
      /\ ~Located =>
            /\ QueriesOfLoop("around") = {}
            /\ FoodWanted => QueriesOfLoop("local_food") # {}
      /\ Located =>
            /\ QueriesOfLoop("around") # {} <=> FoodWanted
            /\ \A i \in FoodFrom("eat"), j \in FoodFrom("around") : i < j
            /\ Cardinality(FoodFrom("eat"))
                  <= MustEatCap * Cardinality(QueriesOfLoop("eat"))
            /\ Cardinality(FoodFrom("around")) <= LocalFoodCap
            /\ Len(context.food) <= FoodCap


\* the path is shorter than twice the cap, and the sampling starts at the
\* first point
PathBelowTwiceCap ==
    (pc = "cover" /\ "path" \in DOMAIN log) =>
        /\ Len(log.path) < 2 * PathCap
        /\ log.path # <<>>

\* C25: generate_route_map puts at most 100 points into the path of the
\* static-map URL.
C25_PathAtMostHundred ==
    (pc = "cover" /\ "path" \in DOMAIN log) => Len(log.path) <= PathCap

-----------------------------------------------------------------------------
(* likes *)

LikeRows(p) == {row \in tables.likes : row[2] = p}

C28_NonOwnerChangesNothing ==
    pc = "likes" =>
        \A p \in DOMAIN plans, u \in Users \cup {NoUser} :
            ~IsOwner(plans, p, u) =>
                /\ \A kwargs \in UpdateRequests, token \in ShareCodes :
                      update_plan(plans, p, u, kwargs, token) = plans
                /\ delete_plan(plans, tables, p, u) = Store(plans, tables)

\* a private plan with a like and a favorite after somebody else asked to
\* delete it
C28_Witness ==
    /\ pc = "likes"
    /\ log.last = "delete by another"
    /\ \E p \in DOMAIN plans :
         /\ ~plans[p].is_public
         /\ LikeRows(p) # {}
         /\ \E row \in tables.favorites : row[2] = p

-----------------------------------------------------------------------------
(* shared plans *)

Private(table) == {q \in DOMAIN table : ~table[q].is_public}

\* C29: a plan whose is_public is false is never returned by the share-code
\* lookup, the public listing or a favorites listing, even while it holds
\* the share code of an earlier public period; a failed share-code lookup
\* changes no view_count and a successful one adds exactly one to the
\* view_count of the plan it returns.
C29_PrivateNeverReturned ==
    pc = "views" =>
        /\ get_public_plans(plans) \cap Private(plans) = {}
        /\ \A u \in Users :
             get_user_favorites(plans, tables, u) \cap Private(plans) = {}
        /\ \A share_code \in ShareCodes :
             LET got == get_plan_by_share_code(plans, share_code)
             IN  /\ got.found \cap Private(plans) = {}
                 /\ got.found = {} => got.plans = plans
                 /\ got.found # {} =>
                      \E q \in DOMAIN plans :
                          /\ got.found = {q}
                          /\ plans[q].share_code = share_code
                          /\ got.plans =
                               [plans EXCEPT ![q].view_count = @ + 1]

\* a private plan that was viewed while public, is a favorite of somebody
\* else, and whose share code has just been looked up
C29_Witness ==
    /\ pc = "views"
    /\ log.last = "share code of a private plan"
    /\ \E p \in Private(plans), u \in Users :
         /\ plans[p].share_code # NoShareCode
         /\ plans[p].view_count >= 1
         /\ u # plans[p].user_id
         /\ <<u, p>> \in tables.favorites

-----------------------------------------------------------------------------
(* cover step *)

FirstPoiLocated(pl) ==
    /\ pl.t = "dict" /\ pl.daily_plans.t = "list" /\ Len(pl.daily_plans.v) > 0
    /\ LET first_day == pl.daily_plans.v[1]
       IN  /\ first_day.t = "dict" /\ first_day.pois.t = "list"
           /\ Len(first_day.pois.v) > 0
           /\ first_day.pois.v[1].t = "dict"
           /\ Has(first_day.pois.v[1].location)
CoordinateOf(location) ==
    IF IsObject(location) THEN FormatLocation(location) ELSE location

\* C30: the cover step calls the cover-image resolver once, and when the
\* first POI of the enriched plan's first day has a coordinate the call
\* carries that coordinate as the centre and up to 3 located POIs per day
\* as markers.
C30_CoverCallCarriesMap ==
    pc = "return" =>
        /\ log.cover.called
        /\ FirstPoiLocated(plan) =>
             /\ log.cover.location =
                  CoordinateOf(plan.daily_plans.v[1].pois.v[1].location)
             /\ log.cover.markers = cover_markers(plan.daily_plans.v)

\* what the code does: a plan whose "days" is not a list gets one call
\* without centre or markers, whatever daily_plans holds
CoverCallReadsDays ==
    (pc = "return" /\ plan.days.t # "list") =>
        log.cover = [called |-> TRUE, location |-> NoCentre, markers |-> <<>>]

\* a cover image is stored only when the resolver was called and gave one
CoverNeedsCall ==
    pc = "return" =>
        (cover_url # NoField <=> (log.cover.called /\ env.cover = "url"))

====
